---------------------------- MODULE Spec2Model ----------------------------
(***************************************************************************)
(* variable-irony: environment variables and cached values exposed as      *)
(* accessor properties of a scope object.                                  *)
(*                                                                         *)
(* JavaScript strings are sequences of one-character strings, so that the  *)
(* regular expressions and the case conversion of linkEnvironmentVariable  *)
(* are computed character by character.  JavaScript values are records     *)
(* tagged with their type.                                                 *)
(***************************************************************************)
EXTENDS Naturals, Sequences, FiniteSets, TLC

VARIABLES
    backend,    \* "node" or "browser": which module index.js loaded ("none" before)
    env,        \* process.env (node) / the env shim (browser): key -> value
    props,      \* scope -> (property name -> accessor descriptor)
    last,       \* the most recent operation, its arguments and its outcome
    cache,      \* the in-memory cache of the node module: name -> value
    localStorage, \* the storage of the browser: name -> string
    emitted,    \* the events the most recent operation dispatched
    calls,      \* number of bind calls made so far
    tin,        \* the input drawn for the run: the arguments of a single call,
                \* or what the host of the process is (NoInput otherwise)
    pc,         \* position of a single-call run
    disk,       \* the cache file of the node module: its access and its text
    listeners,  \* process.on: event -> the handlers registered, in order
    attempts,   \* the writes the handlers of the most recent event attempted
    loaded,     \* the module of this process: "no", "loaded", "failed", "exited"
    gen,        \* number of restarts of the process (page loads in the browser)
    assigned,   \* name -> the value last assigned to the cached variable, and when
    modules,    \* module -> the superglobal handle it holds (Unloaded before)
    rhetorical, \* the TemporaryRhetorical of the process: its fields and listeners
    inflight,   \* the fs.writeFile calls started and not yet completed, in order
    stores      \* temporaryDataStore, persistentDataStore and the directories made

\* the state of the process around the cache
lifecycle == <<disk, listeners, attempts, loaded, gen, assigned,
               modules, rhetorical, inflight, stores>>

vars == <<backend, env, props, cache, localStorage, emitted, last, calls, tin, pc,
          disk, listeners, attempts, loaded, gen, assigned,
          modules, rhetorical, inflight, stores>>

-----------------------------------------------------------------------------
(* Bounds of the model *)

\* longest name enumerated exhaustively in the single-call specification
MaxLen == 5
\* number of bind calls in one run of the main specification
MaxCalls == 2
\* number of restarts of the process in one run of the cache specification
MaxRestarts == 1
\* number of file writes of a rhetorical in flight at one time
MaxInflight == 2

-----------------------------------------------------------------------------
(* JavaScript values *)

Undefined == [t |-> "undefined"]
Null == [t |-> "null"]
Str(s) == [t |-> "string", s |-> s]
Num(n) == [t |-> "number", n |-> n]
Bool(b) == [t |-> "boolean", b |-> b]
\* a function, and an object that refers to itself
Func == [t |-> "function"]
Cyclic == [t |-> "cyclic"]

\* v == null (loose equality): true of null and undefined only
IsNullish(v) == v.t \in {"undefined", "null"}

\* ToBoolean(v), as used by `v && ...`
Truthy(v) ==
    CASE v.t = "undefined" -> FALSE
      [] v.t = "null" -> FALSE
      [] v.t = "string" -> Len(v.s) > 0
      [] v.t = "number" -> v.n # 0
      [] v.t = "boolean" -> v.b
      [] v.t = "object" -> TRUE
      [] v.t = "function" -> TRUE
      [] v.t = "cyclic" -> TRUE

DigitChar == <<"0", "1", "2", "3", "4", "5", "6", "7", "8", "9">>

RECURSIVE NumberToString(_)
NumberToString(n) ==
    IF n < 10 THEN <<DigitChar[n + 1]>>
    ELSE NumberToString(n \div 10) \o <<DigitChar[(n % 10) + 1]>>

\* String(v): the characters of the string form of v
ToStringChars(v) ==
    CASE v.t = "undefined" -> <<"u", "n", "d", "e", "f", "i", "n", "e", "d">>
      [] v.t = "null" -> <<"n", "u", "l", "l">>
      [] v.t = "string" -> v.s
      [] v.t = "number" -> NumberToString(v.n)
      [] v.t = "boolean" -> IF v.b THEN <<"t", "r", "u", "e">>
                            ELSE <<"f", "a", "l", "s", "e">>

\* String(v)
JSString(v) == Str(ToStringChars(v))

-----------------------------------------------------------------------------
(* Characters and the regular expressions of linkEnvironmentVariable *)

Lower == {"a", "b"}
Upper == {"A", "B"}
Digit == {"0", "1"}

\* the class [\da-z]
IsLowerDigit(c) == c \in Lower \cup Digit
\* the class [A-Z]
IsUpper(c) == c \in Upper

ToUpperChar(c) ==
    CASE c = "a" -> "A"
      [] c = "b" -> "B"
      [] OTHER -> c

\* String.prototype.toUpperCase
toUpperCase(s) == [i \in 1..Len(s) |-> ToUpperChar(s[i])]

\* the end of the greedy run [\da-z]* that starts at position i (i-1 if empty)
RECURSIVE RunEnd(_, _)
RunEnd(s, i) ==
    IF i <= Len(s) /\ IsLowerDigit(s[i]) THEN RunEnd(s, i + 1) ELSE i - 1

\* the end of the greedy repetition (?:[A-Z][\da-z]+)* after position j
RECURSIVE SegmentsEnd(_, _)
SegmentsEnd(s, j) ==
    IF j + 2 <= Len(s) /\ IsUpper(s[j + 1]) /\ IsLowerDigit(s[j + 2])
    THEN SegmentsEnd(s, RunEnd(s, j + 2))
    ELSE j

\* where the leftmost match of /(?:[\da-z]+)(?:[A-Z][\da-z]+)*/g starts; 0 if none
MatchStart(s) ==
    IF \E i \in 1..Len(s) : IsLowerDigit(s[i])
    THEN CHOOSE i \in 1..Len(s) :
            /\ IsLowerDigit(s[i])
            /\ \A j \in 1..(i - 1) : ~IsLowerDigit(s[j])
    ELSE 0

\* name.match(/(?:[\da-z]+)(?:[A-Z][\da-z]+)*/g) is null
MatchIsNull(s) == MatchStart(s) = 0

\* name.match(/(?:[\da-z]+)(?:[A-Z][\da-z]+)*/g)[0], when the match is not null
FirstMatch(s) ==
    LET i == MatchStart(s)
    IN SubSeq(s, i, SegmentsEnd(s, RunEnd(s, i)))

\* a plausible slip: the capitals are not separated
ReplaceCapitalsDropped(s) == s

\* name.replace(/([A-Z])/g, "_$1")
RECURSIVE ReplaceCapitals(_)
ReplaceCapitals(s) ==
    IF s = <<>> THEN <<>>
    ELSE (IF IsUpper(Head(s)) THEN <<"_", Head(s)>> ELSE <<Head(s)>>)
         \o ReplaceCapitals(Tail(s))


-----------------------------------------------------------------------------
(* Scopes, arguments and the environment *)

Obj(o) == [t |-> "object", o |-> o]

\* the global scope handle of universal.js
superglobal == "superglobal"
\* the scope objects of a run: the global object and one container object
Scopes == {superglobal, "container"}

\* a function with the empty domain: an object without own properties
Empty == [k \in {} |-> Undefined]

\* a plausible slip: the object is replaced by one that has the property only
AssignAlone(obj, key, value) == (key :> value)

\* obj[key] = value
Assign(obj, key, value) == (key :> value) @@ obj

\* v.length == null: strings have a length, the other primitives have none
LengthIsNullish(v) == v.t # "string"
\* !v.length, for a value that has a length
LengthIsZero(v) == v.t = "string" /\ Len(v.s) = 0

\* process.env[key] / env[key]
EnvGet(e, key) == IF key \in DOMAIN e THEN e[key] ELSE Undefined

\* a plausible slip: the written value is stored as it is
EnvSetRaw(e, key, value) == Assign(e, key, value)

\* the setter: process.env[realName] = String(value)
EnvSet(e, key, value) == Assign(e, key, JSString(value))

\* a plausible slip (the getter of an earlier revision): the entry is looked
\* up under the upper-cased property name instead of the real name
GetterByName(e, name, realName) == EnvGet(e, toUpperCase(name))

\* the getter: () => process.env[realName]
Getter(e, name, realName) == EnvGet(e, realName)

\* the translation of the name: reading [0] of a null match throws a
\* TypeError; a name that is its own first match is taken as camelCase, any
\* other name as snake_case
Translate(name) ==
    IF MatchIsNull(name)
    THEN [threw |-> TRUE, key |-> <<>>]
    ELSE IF FirstMatch(name) = name
         THEN [threw |-> FALSE, key |-> toUpperCase(ReplaceCapitals(name))]
         ELSE [threw |-> FALSE, key |-> toUpperCase(name)]

\* a plausible slip: realName is never consulted
ResolveIgnoringRealName(name, realName) == Translate(name.s)

\* if (realName == null) { ... }: the real key
ResolveRealName(name, realName) ==
    IF IsNullish(realName)
    THEN Translate(name.s)
    ELSE [threw |-> FALSE, key |-> realName.s]

\* a plausible slip: null is not replaced by the empty string
InitializerKept(initializer) == initializer

\* if (initializer == null) initializer = "";
InitializerDefault(initializer) ==
    IF IsNullish(initializer) THEN Str(<<>>) ELSE initializer

\* if (scope == null) scope = superglobal;
ScopeDefault(scopeArg) ==
    IF IsNullish(scopeArg) THEN superglobal ELSE scopeArg.o

\* a plausible slip: the initializer is assigned whatever the entry holds
NeedsInitializerAlways(current) == TRUE

\* if (scope[name] == null)
NeedsInitializer(current) == IsNullish(current)

\* what is assigned to scope[name]: String(initializer) on node, the
\* initializer itself in the browser (the setter coerces it)
InitialAssignment(b, initializer) ==
    IF b = "node" THEN JSString(initializer) ELSE initializer

\* Object.defineProperty(scope, name, {get, set}) throws a TypeError when the
\* scope already has the property: the accessor it installed is not
\* configurable, and the new get and set are other function objects
CannotRedefine(p, scope, name) == name \in DOMAIN p[scope]

EnvDescriptor(realName) == [kind |-> "env", realName |-> realName]

Returned(value, e, p) ==
    [outcome |-> "returned", error |-> "none", ret |-> value, env |-> e, props |-> p]
Threw(error, e, p) ==
    [outcome |-> "threw", error |-> error, ret |-> Undefined, env |-> e, props |-> p]

\* linkEnvironmentVariable(name, realName, initializer, scope): the outcome of
\* the call and the environment and scopes it leaves
linkEnvironmentVariable(name, realName, initializer, scopeArg) ==
    IF Truthy(name) /\ LengthIsNullish(name)
    THEN Threw("Error: name cannot be empty", env, props)
    ELSE IF Truthy(realName) /\ LengthIsZero(realName)
    THEN Threw("Error: realName cannot be empty", env, props)
    ELSE
      LET init == InitializerDefault(initializer)
          scope == ScopeDefault(scopeArg)
          resolved == ResolveRealName(name, realName)
      IN IF resolved.threw
         THEN Threw("TypeError: null match", env, props)
         ELSE IF CannotRedefine(props, scope, name.s)
         THEN Threw("TypeError: cannot redefine property", env, props)
         ELSE
           LET p == [props EXCEPT ![scope] =
                        Assign(@, name.s, EnvDescriptor(resolved.key))]
               e == IF NeedsInitializer(Getter(env, name.s, resolved.key))
                    THEN EnvSet(env, resolved.key, InitialAssignment(backend, init))
                    ELSE env
           IN Returned(Str(resolved.key), e, p)


-----------------------------------------------------------------------------
(* createCachedVariable *)

Quote == "\""

\* all characters of s are decimal digits
IsDigits(s) == \A i \in 1..Len(s) : \E d \in 1..10 : DigitChar[d] = s[i]

DigitValue(c) == (CHOOSE d \in 1..10 : DigitChar[d] = c) - 1

RECURSIVE DigitsValue(_)
DigitsValue(s) ==
    IF s = <<>> THEN 0
    ELSE 10 * DigitsValue(SubSeq(s, 1, Len(s) - 1)) + DigitValue(s[Len(s)])

\* JSON.stringify(value) throws: the value refers to itself
StringifyThrows(v) == v.t = "cyclic"

\* JSON.stringify(value): a string, or undefined for undefined and for a function
JSONStringify(v) ==
    CASE v.t = "undefined" -> Undefined
      [] v.t = "function" -> Undefined
      [] v.t = "string" -> Str(<<Quote>> \o v.s \o <<Quote>>)
      [] OTHER -> JSString(v)

\* JSON.parse(text), text coerced to a string
JSONParse(text) ==
    LET s == ToStringChars(text)
    IN CASE s = <<"n", "u", "l", "l">> -> [threw |-> FALSE, value |-> Null]
         [] s = <<"t", "r", "u", "e">> -> [threw |-> FALSE, value |-> Bool(TRUE)]
         [] s = <<"f", "a", "l", "s", "e">> -> [threw |-> FALSE, value |-> Bool(FALSE)]
         [] Len(s) >= 1 /\ IsDigits(s) /\ (Len(s) = 1 \/ s[1] # "0") ->
                [threw |-> FALSE, value |-> Num(DigitsValue(s))]
         [] /\ Len(s) >= 2 /\ s[1] = Quote /\ s[Len(s)] = Quote
            /\ \A i \in 2..(Len(s) - 1) : s[i] # Quote ->
                [threw |-> FALSE, value |-> Str(SubSeq(s, 2, Len(s) - 1))]
         [] OTHER -> [threw |-> TRUE, value |-> Undefined]

\* localStorage.getItem(name): the stored string, or null
GetItem(ls, name) == IF name \in DOMAIN ls THEN ls[name] ELSE Null

\* localStorage.setItem(name, value): the value is stored as a string
SetItem(ls, name, value) == Assign(ls, name, JSString(value))

\* cache[name]
CacheGet(c, name) == IF name \in DOMAIN c THEN c[name] ELSE Undefined

\* What the getter and the setter find when they run: whether the runtime
\* defines CustomEvent, and the `this` of the createCachedVariable call, which
\* the arrow functions keep.  A browser defines CustomEvent and its global
\* object (window) dispatches events; the module is in strict mode, so a plain
\* call has `this` undefined and a call through the exports has the exports.
Hosts(b) ==
    IF b = "browser"
    THEN [customEvent : {TRUE}, this : {Undefined, Obj(superglobal)}]
    ELSE [customEvent : {TRUE, FALSE}, this : {Undefined, Obj("exports")}]

\* this.dispatchEvent is a function
IsEventTarget(b, this) == b = "browser" /\ this = Obj(superglobal)

Event(type, target, name, value) ==
    [type |-> type, target |-> target, name |-> name, value |-> value]

\* the setter of a cached variable: the stores and the events it leaves, and
\* whether it threw
CachedSet(b, host, name, value, c, ls) ==
    IF ~host.customEvent
    THEN [threw |-> TRUE, error |-> "ReferenceError: CustomEvent is not defined",
          cache |-> c, localStorage |-> ls, emitted |-> <<>>]
    ELSE IF b = "browser" /\ StringifyThrows(value)
    THEN [threw |-> TRUE, error |-> "TypeError: cyclic object value",
          cache |-> c, localStorage |-> ls, emitted |-> <<>>]
    ELSE LET c2 == IF b = "node" THEN Assign(c, name, value) ELSE c
             ls2 == IF b = "browser" THEN SetItem(ls, name, JSONStringify(value)) ELSE ls
         IN IF IsEventTarget(b, host.this)
            THEN [threw |-> FALSE, error |-> "none", cache |-> c2, localStorage |-> ls2,
                  emitted |-> <<Event("ldWrite", host.this.o, name, value)>>]
            ELSE [threw |-> TRUE, error |-> "TypeError: this.dispatchEvent",
                  cache |-> c2, localStorage |-> ls2, emitted |-> <<>>]

\* the getter of a cached variable: the value it returns and the events it
\* leaves, and whether it threw
CachedGet(b, host, name, c, ls) ==
    LET parsed == IF b = "browser" THEN JSONParse(GetItem(ls, name))
                  ELSE [threw |-> FALSE, value |-> CacheGet(c, name)]
    IN IF parsed.threw
       THEN [threw |-> TRUE, error |-> "SyntaxError: JSON.parse",
             value |-> Undefined, emitted |-> <<>>]
       ELSE IF ~host.customEvent
       THEN [threw |-> TRUE, error |-> "ReferenceError: CustomEvent is not defined",
             value |-> Undefined, emitted |-> <<>>]
       ELSE IF IsEventTarget(b, host.this)
       THEN [threw |-> FALSE, error |-> "none", value |-> parsed.value,
             emitted |-> <<Event("ldRead", host.this.o, name, parsed.value)>>]
       ELSE [threw |-> TRUE, error |-> "TypeError: this.dispatchEvent",
             value |-> Undefined, emitted |-> <<>>]

CacheDescriptor(name, host) == [kind |-> "cache", realName |-> name, host |-> host]

\* node: if (scope == null) scope = superglobal;
\* browser: if (scope === null) scope = superglobal;  (undefined is kept)
CachedScopeDefault(b, scopeArg) ==
    IF b = "node"
    THEN (IF IsNullish(scopeArg) THEN Obj(superglobal) ELSE scopeArg)
    ELSE (IF scopeArg = Null THEN Obj(superglobal) ELSE scopeArg)

\* node: initializer !== null && cache[name] !== undefined
\* browser: initializer !== null && localStorage.getItem(name) === null
AppliesInitializer(b, name, initializer, c, ls) ==
    /\ initializer # Null
    /\ IF b = "node" THEN CacheGet(c, name) # Undefined
       ELSE GetItem(ls, name) = Null

CacheOutcome(outcome, error, p, c, ls, ev) ==
    [outcome |-> outcome, error |-> error, ret |-> Undefined,
     props |-> p, cache |-> c, localStorage |-> ls, emitted |-> ev]

\* createCachedVariable(name, initializer, scope), called with `this` and on
\* the runtime of host
createCachedVariable(name, initializer, scopeArg, host) ==
    IF Len(name.s) = 0
    THEN CacheOutcome("threw", "Error: name cannot be empty",
                      props, cache, localStorage, <<>>)
    ELSE
      LET scope == CachedScopeDefault(backend, scopeArg)
      IN IF scope.t # "object"
         THEN CacheOutcome("threw", "TypeError: defineProperty called on non-object",
                           props, cache, localStorage, <<>>)
         ELSE IF CannotRedefine(props, scope.o, name.s)
         THEN CacheOutcome("threw", "TypeError: cannot redefine property",
                           props, cache, localStorage, <<>>)
         ELSE
           LET p == [props EXCEPT ![scope.o] =
                        Assign(@, name.s, CacheDescriptor(name.s, host))]
           IN IF AppliesInitializer(backend, name.s, initializer, cache, localStorage)
              THEN LET w == CachedSet(backend, host, name.s, initializer,
                                      cache, localStorage)
                   IN CacheOutcome(IF w.threw THEN "threw" ELSE "returned", w.error,
                                   p, w.cache, w.localStorage, w.emitted)
              ELSE CacheOutcome("returned", "none", p, cache, localStorage, <<>>)

-----------------------------------------------------------------------------
(* The cache file and the handlers of the node module *)

\* the events the flush is registered for
FlushEvents == {"exit", "SIGTERM", "SIGINT", "SIGHUP"}

NoListeners == [e \in FlushEvents |-> <<>>]

\* The text of a file: of a JSON object (member name -> JSON text of the
\* member), the text "null", or a text that is not JSON.
ObjectText(members) == [kind |-> "object", members |-> members]
NullText == [kind |-> "null", members |-> Empty]
MalformedText == [kind |-> "malformed", members |-> Empty]

\* JSON.stringify(cache) throws: a member refers to itself
StringifyCacheThrows(c) == \E n \in DOMAIN c : StringifyThrows(c[n])

\* JSON.stringify(cache) of the in-memory cache: a member whose value is
\* undefined or a function is left out
StringifyCache(c) ==
    ObjectText([k \in {n \in DOMAIN c : JSONStringify(c[n]) # Undefined} |->
                    JSONStringify(c[k]).s])

\* JSON.parse(text) of a file
ParseFile(text) ==
    CASE text.kind = "malformed" -> [threw |-> TRUE, members |-> Empty]
      [] text.kind = "null" -> [threw |-> FALSE, members |-> Empty]
      [] text.kind = "object" ->
            IF \E k \in DOMAIN text.members : JSONParse(Str(text.members[k])).threw
            THEN [threw |-> TRUE, members |-> Empty]
            ELSE [threw |-> FALSE,
                  members |-> [k \in DOMAIN text.members |->
                                  JSONParse(Str(text.members[k])).value]]

\* Object.assign(cache, loaded)
ObjectAssign(c, source) ==
    [k \in DOMAIN c \cup DOMAIN source |-> IF k \in DOMAIN source THEN source[k] ELSE c[k]]

\* the cache file at cache_path: how it can be accessed and what it holds
File(access, text) == [access |-> access, text |-> text]

\* fs.existsSync(cache_path)
ExistsSync(d) == d.access # "missing"
\* fs.accessSync(cache_path, R_OK) followed by fs.accessSync(cache_path, W_OK) throws
AccessThrows(d) == d.access \in {"missing", "unreadable", "unwritable"}

\* fs.writeFileSync(path, text): appdata is the directory of the cache file,
\* writing to it fails; cache_path is created when it is missing
writeFileSync(d, path, text) ==
    IF path = "appdata"
    THEN [threw |-> TRUE, error |-> "EISDIR", disk |-> d]
    ELSE IF d.access = "unwritable"
    THEN [threw |-> TRUE, error |-> "EACCES", disk |-> d]
    ELSE [threw |-> FALSE, error |-> "none",
          disk |-> File(IF d.access = "missing" THEN "ok" ELSE d.access, text)]

\* the handler the on-load code registers: it writes JSON.stringify(cache) to
\* appdata, and cache is the constant null of that module
OnLoadHandler == [path |-> "appdata", data |-> "null"]

\* the handler trySaveToDisk registers: it writes JSON.stringify(cache) to
\* cache_path; cache and cache_path name the in-memory cache and the path of
\* the cache file of the module, and the data store is not a temporary one
SaveHandler == [path |-> "cache_path", data |-> "cache"]

Attempt(path, text, error) == [path |-> path, text |-> text, error |-> error]

\* process.emit(event): the handlers run in the order they were registered,
\* and one that throws (in JSON.stringify or in the write) ends the emit
RECURSIVE RunHandlers(_, _, _)
RunHandlers(hs, d, c) ==
    IF hs = <<>>
    THEN [disk |-> d, attempts |-> <<>>, threw |-> FALSE]
    ELSE IF Head(hs).data = "cache" /\ StringifyCacheThrows(c)
    THEN [disk |-> d, attempts |-> <<>>, threw |-> TRUE]
    ELSE LET h == Head(hs)
             text == IF h.data = "null" THEN NullText ELSE StringifyCache(c)
             w == writeFileSync(d, h.path, text)
         IN IF w.threw
            THEN [disk |-> d, attempts |-> <<Attempt(h.path, text, w.error)>>,
                  threw |-> TRUE]
            ELSE LET rest == RunHandlers(Tail(hs), w.disk, c)
                 IN [disk |-> rest.disk,
                     attempts |-> <<Attempt(h.path, text, "none")>> \o rest.attempts,
                     threw |-> rest.threw]

Register(ls, h) == [e \in FlushEvents |-> Append(ls[e], h)]

\* the code the node module executes on load: the handlers are registered
\* when both access checks pass; then `cache = fs.readFileSync(...)` assigns
\* to a constant and throws, as a failed access check does; the catch block
\* calls err.stackTrace.split, and no error has a stackTrace, so it throws a
\* TypeError and the load of the module fails
OnLoad(d, ls) ==
    [listeners |-> IF AccessThrows(d) THEN ls ELSE Register(ls, OnLoadHandler),
     outcome |-> "threw",
     error |-> "TypeError: err.stackTrace is undefined"]

\* a plausible slip: the handlers are registered before the access check
trySaveToDiskEager(location, d, ls, c) ==
    IF location = "cache_path" /\ AccessThrows(d)
    THEN [listeners |-> Register(ls, SaveHandler), cache |-> c, error |-> "access"]
    ELSE LET ls2 == Register(ls, SaveHandler)
         IN IF ~ExistsSync(d)
            THEN [listeners |-> ls2, cache |-> c, error |-> "none"]
            ELSE IF d.access = "unreadable"
            THEN [listeners |-> ls2, cache |-> c, error |-> "load"]
            ELSE LET parsed == ParseFile(d.text)
                 IN IF parsed.threw
                    THEN [listeners |-> ls2, cache |-> c, error |-> "load"]
                    ELSE [listeners |-> ls2, cache |-> ObjectAssign(c, parsed.members),
                          error |-> "none"]

\* trySaveToDisk(object, location): location is the cache file or the data
\* store directory (which exists).  A missing location leads to fs.mkdirSync()
\* without a path, which throws; whatever the try block throws is logged and
\* the function returns: error tells whether the access check or the load of
\* the file threw.
trySaveToDisk(location, d, ls, c) ==
    IF location = "cache_path" /\ AccessThrows(d)
    THEN [listeners |-> ls, cache |-> c, error |-> "access"]
    ELSE LET ls2 == Register(ls, SaveHandler)
         IN IF ~ExistsSync(d)
            THEN [listeners |-> ls2, cache |-> c, error |-> "none"]
            ELSE IF d.access = "unreadable"
            THEN [listeners |-> ls2, cache |-> c, error |-> "load"]
            ELSE LET parsed == ParseFile(d.text)
                 IN IF parsed.threw
                    THEN [listeners |-> ls2, cache |-> c, error |-> "load"]
                    ELSE [listeners |-> ls2, cache |-> ObjectAssign(c, parsed.members),
                          error |-> "none"]

-----------------------------------------------------------------------------
(* The global handle of universal.js and the choice of index.js *)

\* the modules that import the handle: the index of the package, the node
\* backend, and the module of the test that assigns through its handle
Modules == {"index", "node", "set-superglobal"}

Unloaded == [t |-> "unloaded"]
NoModules == [m \in Modules |-> Unloaded]

\* the `this` of a function called without a receiver: undefined in a strict
\* function, the global object in any other
CallThis(strict) == IF strict THEN Undefined ELSE Obj(superglobal)

\* a plausible slip: the function takes the strict mode of the module
superglobalStrict == CallThis(TRUE)

\* (new Function("return this;"))(): the Function constructor makes a function
\* that is not strict, whatever the mode of the module that calls it
superglobalHandle == CallThis(FALSE)

\* an own data property of an object
DataDescriptor(value) == [kind |-> "data", realName |-> <<>>, value |-> value]

\* base[key], where base is a handle: the value, or a TypeError when the base
\* is undefined
GetProperty(base, p, key) ==
    IF base.t # "object"
    THEN [threw |-> TRUE, error |-> "TypeError: base is undefined", value |-> Undefined]
    ELSE [threw |-> FALSE, error |-> "none",
          value |-> IF key \in DOMAIN p[base.o] THEN p[base.o][key].value ELSE Undefined]

\* the identifier key on its own: a property of the global object, or a
\* ReferenceError
GetUnscoped(p, key) ==
    IF key \in DOMAIN p[superglobal]
    THEN [threw |-> FALSE, error |-> "none", value |-> p[superglobal][key].value]
    ELSE [threw |-> TRUE, error |-> "ReferenceError: not defined", value |-> Undefined]

\* the ways to a property of the global object: the handle of a module, the
\* global object itself, the identifier on its own
GlobalRead(via, ms, p, key) ==
    IF via \in Modules THEN GetProperty(ms[via], p, key)
    ELSE IF via = "global" THEN GetProperty(Obj(superglobal), p, key)
    ELSE GetUnscoped(p, key)

\* what the top level of index.js finds as `this`: undefined in an ECMAScript
\* module, the exports in a CommonJS module, the global object in a script
TopLevelThis == {Undefined, Obj("exports"), Obj(superglobal)}

\* this.window: the global object of a browser refers to itself as window
WindowOf(this, window) ==
    IF this = Obj(superglobal) /\ window THEN Obj(superglobal) ELSE Undefined

\* index.js: const isBrowser = this.window === superglobal; and the require
\* of the backend
LoadIndex(this, window, handle) ==
    IF this.t # "object"
    THEN [threw |-> TRUE, error |-> "TypeError: this is undefined", api |-> "none"]
    ELSE [threw |-> FALSE, error |-> "none",
          api |-> IF WindowOf(this, window) = handle THEN "browser" ELSE "node"]

-----------------------------------------------------------------------------
(* The cache manager: Metacommunication and TemporaryRhetorical *)

\* typeof v
TypeOf(v) ==
    CASE v.t = "null" -> "object"
      [] v.t = "cyclic" -> "object"
      [] OTHER -> v.t

OnWrite == Str(<<"o", "n", "-", "w", "r", "i", "t", "e">>)

\* no rhetorical constructed yet
NoRhetorical ==
    [made |-> FALSE, context |-> Empty, iv |-> Undefined, onWriting |-> <<>>,
     revoked |-> FALSE]

\* the own fields the constructor of Metacommunication sets
MetacommunicationFields == {"_context", "_revocable", "store"}

\* new TemporaryRhetorical(name, {dataStore, saveFrequency}): typeof is never
\* 'integer', so no interval is set; "on-write" attaches save to
\* "writing-irony"; any other string leaves _iv null
TemporaryRhetorical(saveFrequency) ==
    [made |-> TRUE,
     context |-> Empty,
     iv |-> IF TypeOf(saveFrequency) = "integer" THEN saveFrequency
            ELSE IF TypeOf(saveFrequency) = "string"
            THEN (IF saveFrequency = OnWrite THEN Bool(TRUE) ELSE Null)
            ELSE Bool(FALSE),
     onWriting |-> IF saveFrequency = OnWrite THEN <<"save">> ELSE <<>>,
     revoked |-> FALSE]

\* a write handed to fs.writeFile
WriteRequest(data) == [path |-> "fileLocation", data |-> data]

\* save(): "publishing-irony" is emitted; typeof this._iv is never
\* 'undefined', so the context is serialized and fs.writeFile is started; the
\* function returns without waiting for the write
save(r, fl) ==
    LET publishing == Event("publishing-irony", "rhetorical", <<>>, Undefined)
    IN IF TypeOf(r.iv) = "undefined" \/ StringifyCacheThrows(r.context)
       THEN [inflight |-> fl, emitted |-> <<publishing>>]
       ELSE [inflight |-> Append(fl, WriteRequest(StringifyCache(r.context))),
             emitted |-> <<publishing>>]

\* emit("writing-irony", property, value): the listeners run, in order
RECURSIVE EmitWriting(_, _, _)
EmitWriting(hs, r, fl) ==
    IF hs = <<>> THEN [inflight |-> fl, emitted |-> <<>>]
    ELSE LET s == save(r, fl)
             rest == EmitWriting(Tail(hs), r, s.inflight)
         IN [inflight |-> rest.inflight, emitted |-> s.emitted \o rest.emitted]

\* an operation on the proxy of a revoked store throws before any trap runs.
\* the set trap of the store: the event is emitted, then the context is
\* assigned, then the value is returned; a trap that returns a falsy value
\* reports a failed assignment, which throws a TypeError when the code that
\* assigns is strict
SetTrap(r, property, value, fl, strict) ==
    IF r.revoked
    THEN [rhetorical |-> r, inflight |-> fl, emitted |-> <<>>, threw |-> TRUE]
    ELSE
    LET e == EmitWriting(r.onWriting, r, fl)
    IN [rhetorical |-> [r EXCEPT !.context = Assign(@, property, value)],
        inflight |-> e.inflight,
        emitted |-> <<Event("writing-irony", "rhetorical", property, value)>> \o e.emitted,
        threw |-> strict /\ ~Truthy(value)]

\* the get trap of the store: the value is read from the context, the event
\* is emitted and the value is returned
GetTrap(r, property) ==
    IF r.revoked
    THEN [value |-> Undefined, emitted |-> <<>>, threw |-> TRUE]
    ELSE
    LET value == CacheGet(r.context, property)
    IN [value |-> value,
        emitted |-> <<Event("reading-irony", "rhetorical", property, value)>>,
        threw |-> FALSE]

\* revoke(): "revoking-irony" is emitted, then this._revokable.revoke() is
\* called; the read of a field the object does not have gives undefined, and
\* the call on it throws a TypeError
revoke(r) ==
    LET revoking == Event("revoking-irony", "rhetorical", <<>>, Undefined)
    IN IF "_revokable" \in MetacommunicationFields
       THEN [rhetorical |-> [r EXCEPT !.revoked = TRUE],
             emitted |-> <<revoking>>, threw |-> FALSE]
       ELSE [rhetorical |-> r, emitted |-> <<revoking>>, threw |-> TRUE]

\* the callback of fs.writeFile: on an error the "on-write" listener is
\* removed and _iv becomes null
WriteCallback(r, err) ==
    IF ~err THEN r
    ELSE [r EXCEPT !.onWriting = IF r.iv = Bool(TRUE) THEN <<>> ELSE @,
                   !.iv = Null]

-----------------------------------------------------------------------------
(* The data stores of the node module *)

\* let persistentDataStore = null; let temporaryDataStore = null; and the
\* directories the module has made
NoStores == [temporary |-> Null, persistent |-> Null, dirs |-> {}]

\* the members the node modules fs and os have, of those the functions call
FsMembers == {"mkdirSync", "mkdtempSync", "readFileSync", "writeFile", "writeFileSync"}
OsMembers == {"homedir", "platform", "tmpdir", "userInfo"}

\* the identifiers in scope in getTemporaryDataStore and getPersistentDataStore
TemporaryIdentifiers ==
    {"options", "programExtension", "programName", "defaults", "tmpdir",
     "username", "pid", "kI", "time", "identity"}
PersistentIdentifiers ==
    {"options", "programExtension", "programName", "defaults", "resultPath",
     "homedir", "platform"}

\* path.basename(process.argv0, programExtension)
Argv0Name == Str(<<"n", "o", "d", "e">>)

\* an options object: its programName and the programName of its member
\* options, Undefined where the member is absent
OptionsObject(programName, nested) ==
    [t |-> "object", o |-> "options", programName |-> programName, nested |-> nested]

\* path.join(base, sub, name)
PathJoin(base, sub, name) == [t |-> "path", base |-> base, sub |-> sub, name |-> name]

\* getTemporaryDataStore(options) with the stores st
getTemporaryDataStore(options, st) ==
    IF st.temporary # Null
    THEN [outcome |-> "returned", error |-> "none", ret |-> st.temporary, stores |-> st]
    ELSE IF IsNullish(options)
    THEN \* Object.assign(options, ...) of a target that is no object
         [outcome |-> "threw", error |-> "TypeError: cannot convert to object",
          ret |-> Undefined, stores |-> st]
    ELSE IF "programname" \notin TemporaryIdentifiers
    THEN [outcome |-> "threw", error |-> "ReferenceError: programname",
          ret |-> Undefined, stores |-> st]
    ELSE IF "mktmpdir" \notin FsMembers
    THEN [outcome |-> "threw", error |-> "TypeError: fs.mktmpdir is not a function",
          ret |-> Undefined, stores |-> st]
    ELSE \* the path is returned; temporaryDataStore is not assigned
         LET made == PathJoin("tmpdir", "", Argv0Name)
         IN [outcome |-> "returned", error |-> "none", ret |-> made,
             stores |-> [st EXCEPT !.dirs = @ \cup {made}]]

\* options = Object.assign(defaults, options): the programName of the result
MergedProgramName(options) ==
    IF IsNullish(options) \/ options.programName = Undefined
    THEN Argv0Name
    ELSE options.programName

\* the member options of the result: defaults has none
MergedNested(options) == IF IsNullish(options) THEN Undefined ELSE options.nested

\* getPersistentDataStore(options) on the host with the stores st
getPersistentDataStore(options, host, st) ==
    IF st.persistent # Null
    THEN [outcome |-> "returned", error |-> "none", ret |-> st.persistent, stores |-> st]
    ELSE IF host.appdata /\ MergedNested(options) = Undefined
    THEN \* options.options.programName of an undefined options.options
         [outcome |-> "threw", error |-> "TypeError: options.options is undefined",
          ret |-> Undefined, stores |-> st]
    ELSE IF ~host.appdata /\ ~host.homedir
    THEN IF "strict" \notin PersistentIdentifiers
         THEN [outcome |-> "threw", error |-> "ReferenceError: strict",
               ret |-> Undefined, stores |-> st]
         ELSE LET t == getTemporaryDataStore(OptionsObject(Argv0Name, Undefined), st)
              IN IF t.outcome = "threw" THEN t
                 ELSE [t EXCEPT !.stores.persistent = t.ret]
    ELSE LET resultPath ==
                 IF host.appdata
                 THEN PathJoin("APPDATA", "", MergedNested(options))
                 ELSE IF host.platform = "win32"
                 THEN PathJoin("homedir", "", MergedProgramName(options))
                 ELSE IF host.platform = "darwin"
                 THEN PathJoin("homedir", "Library/Preferences", MergedProgramName(options))
                 ELSE PathJoin("homedir", ".local/share", MergedProgramName(options))
         IN IF "mkdirSync" \notin OsMembers
            THEN [outcome |-> "threw", error |-> "TypeError: os.mkdirSync is not a function",
                  ret |-> Undefined, stores |-> st]
            ELSE [outcome |-> "returned", error |-> "none", ret |-> resultPath,
                  stores |-> [st EXCEPT !.persistent = resultPath,
                                        !.dirs = @ \cup {resultPath}]]

-----------------------------------------------------------------------------
(* Inputs *)

\* the names bound in the main specification: a single word, and a camelCase
\* and a snake_case name of the same real key
Names == {Str(<<"a">>), Str(<<"a", "B", "a">>), Str(<<"a", "_", "b", "a">>)}
RealNames == {Null, Str(<<"A">>)}
Initializers == {Undefined, Null, Str(<<"p">>), Num(0)}
ScopeArgs == {Undefined, Obj("container")}
\* values assigned to a bound property
WrittenValues == {Str(<<"p">>), Num(0)}
\* entries other code of the process sets in process.env
ExternalKeys == {<<"A">>, <<"A", "_", "B", "A">>}
ExternalValues == {Str(<<"x">>), Str(<<>>)}

\* the arguments at the edges of the contract: the empty name, a name without
\* a letter or digit, the empty realName, an omitted and a null scope
EdgeNames == {Str(<<>>), Str(<<"a">>), Str(<<"_">>)}
EdgeRealNames == {Null, Str(<<>>), Str(<<"A">>)}
EdgeInitializers == {Null, Str(<<"p">>)}
EdgeScopeArgs == {Undefined, Null, Obj("container")}
EdgeWrittenValues == {Num(0)}

EdgeCacheInitializers == {Null, Bool(FALSE)}

\* the cached variables of the cache specification
CacheNames == {Str(<<"a">>)}
\* no initializer (null), and the falsy initializers
CacheInitializers == {Null, Bool(FALSE), Num(0), Str(<<>>)}
CacheScopeArgs == {Undefined, Obj("container")}
\* values assigned to a cached variable
CachedValues == {Str(<<"x">>), Bool(TRUE)}
\* what a call of trySaveToDisk is given as location
Locations == {"cache_path", "dataStore"}
\* the cache file a first process finds
InitialDisks ==
    {File("missing", MalformedText),
     File("unreadable", ObjectText(Empty)),
     File("unwritable", ObjectText(Empty)),
     File("ok", MalformedText),
     File("ok", ObjectText(<<"a">> :> <<Quote, "x", Quote>>))}

\* the cached variables of the storage specification: an omitted initializer
\* (undefined or null) and a given one; the global scope and a container
StoreInitializers == {Undefined, Null, Str(<<"x">>)}
StoreScopeArgs == {Null, Obj("container")}
\* the values assigned: one JSON can encode, and two it cannot
StoreValues == {Str(<<"y">>), Func, Cyclic}
\* the JSON texts other code of the page puts into localStorage
DirectTexts == {<<Quote, "z", Quote>>, <<"1">>}

\* the property the modules of the test assign on the global object
GlobalKeys == {<<"t">>}
GlobalValues == {Bool(TRUE), Str(<<"x">>)}
\* the ways a property of the global object is read
Vias == Modules \cup {"global", "unscoped"}
\* whether the global object has the self-reference `window`
Windows == BOOLEAN

\* the options and the assignments of a rhetorical
SaveFrequencies == {OnWrite, Num(1), Undefined}
StoreProperties == {<<"a">>}
\* a truthy value and the falsy values
RhetoricalValues == {Str(<<"x">>), Bool(FALSE), Num(0), Str(<<>>), Null}
\* the file of the rhetorical when it is constructed
RhetoricalDisks ==
    {File("missing", MalformedText),
     File("ok", ObjectText(Empty)),
     File("unwritable", ObjectText(Empty))}

\* whether the application keeps the event loop busy (a server, a timer)
Busy == BOOLEAN
\* the signals the flush is registered for
Signals == FlushEvents \ {"exit"}

\* the options given to the data-store functions: none, null, an empty
\* object, one naming the program and one with a member options
DataStoreOptions ==
    {Undefined, Null,
     OptionsObject(Undefined, Undefined),
     OptionsObject(Str(<<"a">>), Undefined),
     OptionsObject(Undefined, Str(<<"a">>))}
\* the host: whether APPDATA is set, whether os.homedir() is non-empty, and
\* os.platform()
DataStoreHosts ==
    [appdata : BOOLEAN, homedir : BOOLEAN, platform : {"linux", "darwin", "win32"}]

\* every property name a run can bind
PropertyNames == {n.s : n \in Names \cup EdgeNames}

\* the alphabet of the names enumerated exhaustively: a lowercase letter, a
\* digit, a capital and the underscore
Alphabet == {"a", "1", "B", "_"}
AllNames == UNION {[1..n -> Alphabet] : n \in 0..MaxLen}

NoInput == [name |-> Undefined, initializer |-> Undefined]

Operation(op, scopeArg, scope, name, realName, initializer, value, r) ==
    [op |-> op, scopeArg |-> scopeArg, scope |-> scope, name |-> name,
     realName |-> realName, initializer |-> initializer, value |-> value,
     outcome |-> r.outcome, error |-> r.error, ret |-> r.ret]

-----------------------------------------------------------------------------
(* The state machine *)

Init ==
    /\ backend \in {"node", "browser"}
    /\ env = Empty
    /\ props = [s \in Scopes |-> Empty]
    /\ cache = Empty
    /\ localStorage = Empty
    /\ emitted = <<>>
    /\ last = Operation("none", Undefined, superglobal, <<>>, Undefined, Undefined, Undefined,
                        Returned(Undefined, Empty, Empty))
    /\ calls = 0
    /\ tin = NoInput
    /\ pc = "idle"
    /\ disk = File("missing", MalformedText)
    /\ listeners = NoListeners
    /\ attempts = <<>>
    /\ loaded = "loaded"
    /\ gen = 0
    /\ assigned = Empty
    /\ modules = NoModules
    /\ rhetorical = NoRhetorical
    /\ inflight = <<>>
    /\ stores = NoStores

\* a call linkEnvironmentVariable(name, realName, initializer, scope)
Link(name, realName, initializer, scopeArg) ==
    LET r == linkEnvironmentVariable(name, realName, initializer, scopeArg)
    IN /\ calls < MaxCalls
       /\ calls' = calls + 1
       /\ env' = r.env
       /\ props' = r.props
       /\ last' = Operation("link", scopeArg, ScopeDefault(scopeArg), name.s, realName,
                            initializer, Undefined, r)
       /\ emitted' = <<>>
       /\ UNCHANGED <<backend, cache, localStorage, tin, pc, lifecycle>>

\* a read of scope[name] where name is a linked property
Read(scope, name) ==
    /\ name \in DOMAIN props[scope]
    /\ props[scope][name].kind = "env"
    /\ last' = Operation("read", Obj(scope), scope, name, Undefined, Undefined, Undefined,
                  Returned(Getter(env, name, props[scope][name].realName), env, props))
    /\ emitted' = <<>>
    /\ UNCHANGED <<backend, env, props, cache, localStorage, calls, tin, pc, lifecycle>>

\* a plausible slip (the setter of an earlier revision): the entry is written
\* under the property name instead of the real name
WriteByName(scope, name, value) ==
    /\ name \in DOMAIN props[scope]
    /\ props[scope][name].kind = "env"
    /\ env' = EnvSet(env, name, value)
    /\ last' = Operation("write", Obj(scope), scope, name, Undefined, Undefined, value,
                         Returned(value, env', props))
    /\ emitted' = <<>>
    /\ UNCHANGED <<backend, props, cache, localStorage, calls, tin, pc, lifecycle>>

\* an assignment scope[name] = value where name is a linked property
Write(scope, name, value) ==
    /\ name \in DOMAIN props[scope]
    /\ props[scope][name].kind = "env"
    /\ env' = EnvSet(env, props[scope][name].realName, value)
    /\ last' = Operation("write", Obj(scope), scope, name, Undefined, Undefined, value,
                         Returned(value, env', props))
    /\ emitted' = <<>>
    /\ UNCHANGED <<backend, props, cache, localStorage, calls, tin, pc, lifecycle>>

\* other code of the node process sets an environment variable
ExternalSet(key, value) ==
    /\ backend = "node"
    /\ env' = Assign(env, key, value)
    /\ last' = Operation("external", Undefined, superglobal, key, Undefined, Undefined, value,
                         Returned(value, env', props))
    /\ emitted' = <<>>
    /\ UNCHANGED <<backend, props, cache, localStorage, calls, tin, pc, lifecycle>>

\* a call createCachedVariable(name, initializer, scope)
CreateCached(name, initializer, scopeArg, host) ==
    LET r == createCachedVariable(name, initializer, scopeArg, host)
        scope == CachedScopeDefault(backend, scopeArg)
    IN /\ loaded = "loaded"
       /\ calls < MaxCalls
       /\ calls' = calls + 1
       /\ props' = r.props
       /\ cache' = r.cache
       /\ localStorage' = r.localStorage
       /\ emitted' = r.emitted
       /\ last' = Operation("create", scopeArg, IF scope.t = "object" THEN scope.o ELSE "none",
                            name.s, Undefined, initializer, Undefined, r)
       /\ UNCHANGED <<backend, env, tin, pc, lifecycle>>

Outcome(outcome, error, ret) == [outcome |-> outcome, error |-> error, ret |-> ret]

\* a read of scope[name] where name is a cached variable
ReadCached(scope, name) ==
    /\ loaded = "loaded"
    /\ name \in DOMAIN props[scope]
    /\ props[scope][name].kind = "cache"
    /\ LET r == CachedGet(backend, props[scope][name].host, name, cache, localStorage)
       IN /\ emitted' = r.emitted
          /\ last' = Operation("readc", Obj(scope), scope, name, Undefined, Undefined,
                               Undefined,
                               Outcome(IF r.threw THEN "threw" ELSE "returned",
                                       r.error, r.value))
    /\ UNCHANGED <<backend, env, props, cache, localStorage, calls, tin, pc,
                   disk, listeners, attempts, loaded, gen, assigned,
                   modules, rhetorical, inflight, stores>>

\* an assignment scope[name] = value where name is a cached variable
WriteCached(scope, name, value) ==
    /\ loaded = "loaded"
    /\ name \in DOMAIN props[scope]
    /\ props[scope][name].kind = "cache"
    /\ LET r == CachedSet(backend, props[scope][name].host, name, value,
                          cache, localStorage)
       IN /\ cache' = r.cache
          /\ localStorage' = r.localStorage
          /\ emitted' = r.emitted
          /\ last' = Operation("writec", Obj(scope), scope, name, Undefined, Undefined,
                               value,
                               Outcome(IF r.threw THEN "threw" ELSE "returned",
                                       r.error, IF r.threw THEN Undefined ELSE value))
    /\ assigned' = Assign(assigned, name, [value |-> value, gen |-> gen])
    /\ UNCHANGED <<backend, env, props, calls, tin, pc,
                   disk, listeners, attempts, loaded, gen,
                   modules, rhetorical, inflight, stores>>

\* the node module is loaded and executes its on-load code
ExecuteOnLoad ==
    /\ backend = "node"
    /\ loaded = "no"
    /\ LET r == OnLoad(disk, listeners)
       IN /\ listeners' = r.listeners
          /\ loaded' = "failed"
          /\ last' = Operation("load", Undefined, superglobal, <<>>, Undefined,
                               Undefined, Undefined,
                               Outcome(r.outcome, r.error, Undefined))
    /\ emitted' = <<>>
    /\ UNCHANGED <<backend, env, props, cache, localStorage, calls, tin, pc,
                   disk, attempts, gen, assigned, modules, rhetorical, inflight, stores>>

\* the node module is loaded and calls trySaveToDisk(cache, location)
TrySaveToDisk(location) ==
    /\ backend = "node"
    /\ loaded = "no"
    /\ LET r == trySaveToDisk(location, disk, listeners, cache)
       IN /\ listeners' = r.listeners
          /\ cache' = r.cache
          /\ loaded' = "loaded"
          /\ last' = Operation("load", Undefined, superglobal, <<>>, Undefined,
                               Undefined, Undefined,
                               Outcome("returned",
                                       r.error,
                                       Undefined))
    /\ emitted' = <<>>
    /\ UNCHANGED <<backend, env, props, localStorage, calls, tin, pc,
                   disk, attempts, gen, assigned, modules, rhetorical, inflight, stores>>

\* the node process exits or receives a signal: the handlers of the event
\* run.  The process ends on exit and on a signal without a handler (which
\* kills it before anything is flushed); a handler that throws leaves an
\* uncaught exception, on which the process exits.
Terminate(event) ==
    /\ backend = "node"
    /\ loaded = "loaded" \/ (loaded = "failed" /\ event = "exit")
    /\ LET r == RunHandlers(listeners[event], disk, cache)
           killed == event # "exit" /\ listeners[event] = <<>>
       IN /\ disk' = r.disk
          /\ attempts' = r.attempts
          /\ loaded' = IF event = "exit" \/ killed THEN "exited"
                       ELSE IF r.threw THEN "failed" ELSE loaded
          /\ assigned' = IF killed THEN Empty ELSE assigned
          /\ last' = Operation(event, Undefined, superglobal, <<>>, Undefined,
                               Undefined, Undefined,
                               Outcome(IF r.threw THEN "threw" ELSE "returned",
                                       IF r.threw THEN "write failed" ELSE "none",
                                       Undefined))
    /\ emitted' = <<>>
    /\ UNCHANGED <<backend, env, props, cache, localStorage, calls, tin, pc,
                   listeners, gen, modules, rhetorical, inflight, stores>>

\* a new process starts on the same disk (node), the page is loaded again
\* with the same localStorage (browser): scopes, listeners and the in-memory
\* cache are new
Restart ==
    /\ gen < MaxRestarts
    /\ backend = "browser" \/ loaded = "exited"
    /\ gen' = gen + 1
    /\ loaded' = IF backend = "browser" THEN "loaded" ELSE "no"
    /\ env' = Empty
    /\ props' = [s \in Scopes |-> Empty]
    /\ cache' = Empty
    /\ listeners' = NoListeners
    /\ attempts' = <<>>
    /\ emitted' = <<>>
    /\ calls' = 0
    /\ last' = Operation("restart", Undefined, superglobal, <<>>, Undefined,
                         Undefined, Undefined, Outcome("returned", "none", Undefined))
    /\ UNCHANGED <<backend, localStorage, tin, pc, disk, assigned,
                   modules, rhetorical, inflight, stores>>


Next ==
    \/ \E name \in Names, realName \in RealNames,
          initializer \in Initializers, scopeArg \in ScopeArgs :
            Link(name, realName, initializer, scopeArg)
    \/ \E scope \in Scopes, name \in PropertyNames : Read(scope, name)
    \/ \E scope \in Scopes, name \in PropertyNames, value \in WrittenValues :
            Write(scope, name, value)
    \/ \E key \in ExternalKeys, value \in ExternalValues : ExternalSet(key, value)

Spec == Init /\ [][Next]_vars

-----------------------------------------------------------------------------
(* The same machine driven with the arguments at the edges of the contract *)

NextEdge ==
    \/ \E name \in EdgeNames, realName \in EdgeRealNames,
          initializer \in EdgeInitializers, scopeArg \in EdgeScopeArgs :
            Link(name, realName, initializer, scopeArg)
    \/ \E scope \in Scopes, name \in PropertyNames : Read(scope, name)
    \/ \E scope \in Scopes, name \in PropertyNames, value \in EdgeWrittenValues :
            Write(scope, name, value)
    \/ \E name \in EdgeNames, initializer \in EdgeCacheInitializers,
          scopeArg \in EdgeScopeArgs, host \in Hosts(backend) :
            CreateCached(name, initializer, scopeArg, host)

SpecEdge == Init /\ [][NextEdge]_vars

-----------------------------------------------------------------------------
(* One call on a fresh process, for every name up to MaxLen characters *)

InitTranslate ==
    /\ backend \in {"node", "browser"}
    /\ env = Empty
    /\ props = [s \in Scopes |-> Empty]
    /\ cache = Empty
    /\ localStorage = Empty
    /\ emitted = <<>>
    /\ last = Operation("none", Undefined, superglobal, <<>>, Undefined, Undefined, Undefined,
                        Returned(Undefined, Empty, Empty))
    /\ calls = 0
    /\ tin \in [name : {Str(n) : n \in AllNames}, initializer : {Undefined, Str(<<"d">>)}]
    /\ pc = "start"
    /\ disk = File("missing", MalformedText)
    /\ listeners = NoListeners
    /\ attempts = <<>>
    /\ loaded = "loaded"
    /\ gen = 0
    /\ assigned = Empty
    /\ modules = NoModules
    /\ rhetorical = NoRhetorical
    /\ inflight = <<>>
    /\ stores = NoStores

\* the call linkEnvironmentVariable(name, undefined, initializer)
LinkOnce ==
    /\ pc = "start"
    /\ pc' = "done"
    /\ LET r == linkEnvironmentVariable(tin.name, Undefined, tin.initializer, Undefined)
       IN /\ calls' = calls + 1
          /\ env' = r.env
          /\ props' = r.props
          /\ last' = Operation("link", Undefined, superglobal, tin.name.s, Undefined,
                               tin.initializer, Undefined, r)
    /\ emitted' = <<>>
    /\ UNCHANGED <<backend, cache, localStorage, tin, lifecycle>>

NextTranslate == LinkOnce

SpecTranslate == InitTranslate /\ [][NextTranslate]_vars


-----------------------------------------------------------------------------
(* The cached variables over the life of a process and its restarts *)

InitCache ==
    /\ backend \in {"node", "browser"}
    /\ env = Empty
    /\ props = [s \in Scopes |-> Empty]
    /\ cache = Empty
    /\ localStorage = Empty
    /\ emitted = <<>>
    /\ last = Operation("none", Undefined, superglobal, <<>>, Undefined, Undefined,
                        Undefined, Outcome("returned", "none", Undefined))
    /\ calls = 0
    /\ tin = NoInput
    /\ pc = "idle"
    /\ disk \in (IF backend = "node" THEN InitialDisks
                 ELSE {File("missing", MalformedText)})
    /\ listeners = NoListeners
    /\ attempts = <<>>
    /\ loaded = IF backend = "browser" THEN "loaded" ELSE "no"
    /\ gen = 0
    /\ assigned = Empty
    /\ modules = NoModules
    /\ rhetorical = NoRhetorical
    /\ inflight = <<>>
    /\ stores = NoStores

NextCache ==
    \/ ExecuteOnLoad
    \/ \E location \in Locations : TrySaveToDisk(location)
    \/ \E name \in CacheNames, initializer \in CacheInitializers,
          scopeArg \in CacheScopeArgs, host \in Hosts(backend) :
            CreateCached(name, initializer, scopeArg, host)
    \/ \E scope \in Scopes, name \in PropertyNames : ReadCached(scope, name)
    \/ \E scope \in Scopes, name \in PropertyNames, value \in CachedValues :
            WriteCached(scope, name, value)
    \/ \E event \in FlushEvents : Terminate(event)
    \/ Restart

SpecCache == InitCache /\ [][NextCache]_vars

-----------------------------------------------------------------------------
(* Cached variables given values JSON cannot encode, and a localStorage     *)
(* that other code of the page writes to                                    *)

\* other code of the page calls localStorage.setItem(name, text)
StorageSet(name, text) ==
    /\ backend = "browser"
    /\ loaded = "loaded"
    /\ localStorage' = SetItem(localStorage, name, Str(text))
    /\ last' = Operation("setItem", Undefined, superglobal, name, Undefined, Undefined,
                         Str(text), Outcome("returned", "none", Undefined))
    /\ emitted' = <<>>
    /\ UNCHANGED <<backend, env, props, cache, calls, tin, pc, lifecycle>>

NextStore ==
    \/ \E name \in CacheNames, initializer \in StoreInitializers,
          scopeArg \in StoreScopeArgs, host \in Hosts(backend) :
            CreateCached(name, initializer, scopeArg, host)
    \/ \E scope \in Scopes, name \in PropertyNames : ReadCached(scope, name)
    \/ \E scope \in Scopes, name \in PropertyNames, value \in StoreValues :
            WriteCached(scope, name, value)
    \/ \E name \in CacheNames, text \in DirectTexts : StorageSet(name.s, text)

SpecStore == Init /\ [][NextStore]_vars

-----------------------------------------------------------------------------
(* The load of the package: the handle of universal.js in each module and   *)
(* the backend index.js requires                                            *)

InitLoad ==
    /\ backend = "none"
    /\ env = Empty
    /\ props = [s \in Scopes |-> Empty]
    /\ cache = Empty
    /\ localStorage = Empty
    /\ emitted = <<>>
    /\ last = Operation("none", Undefined, superglobal, <<>>, Undefined, Undefined,
                        Undefined, Outcome("returned", "none", Undefined))
    /\ calls = 0
    /\ tin \in [this : TopLevelThis, window : Windows]
    /\ pc = "start"
    /\ disk = File("missing", MalformedText)
    /\ listeners = NoListeners
    /\ attempts = <<>>
    /\ loaded = "no"
    /\ gen = 0
    /\ assigned = Empty
    /\ modules = NoModules
    /\ rhetorical = NoRhetorical
    /\ inflight = <<>>
    /\ stores = NoStores

\* module m requires universal.js and keeps the handle
Import(m) ==
    /\ modules[m] = Unloaded
    /\ modules' = [modules EXCEPT ![m] = superglobalHandle]
    /\ last' = Operation("import", Undefined, m, <<>>, Undefined, Undefined, Undefined,
                         Outcome("returned", "none", modules'[m]))
    /\ emitted' = <<>>
    /\ UNCHANGED <<backend, env, props, cache, localStorage, calls, tin, pc,
                   disk, listeners, attempts, loaded, gen, assigned,
                   rhetorical, inflight, stores>>

\* the top level of index.js runs, after its import of the handle
SelectApi ==
    /\ pc = "start"
    /\ modules["index"] # Unloaded
    /\ LET r == LoadIndex(tin.this, tin.window, modules["index"])
       IN /\ backend' = r.api
          /\ pc' = IF r.threw THEN "failed" ELSE "done"
          /\ last' = Operation("select", Undefined, "index", <<>>, Undefined, Undefined,
                               Undefined,
                               Outcome(IF r.threw THEN "threw" ELSE "returned",
                                       r.error, Undefined))
    /\ emitted' = <<>>
    /\ UNCHANGED <<env, props, cache, localStorage, calls, tin, lifecycle>>

\* module m assigns superglobal[key] = value
AssignGlobal(m, key, value) ==
    /\ modules[m] # Unloaded
    /\ IF modules[m].t = "object"
       THEN /\ props' = [props EXCEPT ![modules[m].o] =
                            Assign(@, key, DataDescriptor(value))]
            /\ last' = Operation("assign", Undefined, m, key, Undefined, Undefined,
                                 value, Outcome("returned", "none", value))
       ELSE /\ props' = props
            /\ last' = Operation("assign", Undefined, m, key, Undefined, Undefined,
                                 value,
                                 Outcome("threw", "TypeError: base is undefined",
                                         Undefined))
    /\ emitted' = <<>>
    /\ UNCHANGED <<backend, env, cache, localStorage, calls, tin, pc, lifecycle>>

\* the property key of the global object is read through via
ReadGlobal(via, key) ==
    /\ via \in Modules => modules[via] # Unloaded
    /\ LET r == GlobalRead(via, modules, props, key)
       IN last' = Operation("get", Undefined, via, key, Undefined, Undefined, Undefined,
                            Outcome(IF r.threw THEN "threw" ELSE "returned",
                                    r.error, r.value))
    /\ emitted' = <<>>
    /\ UNCHANGED <<backend, env, props, cache, localStorage, calls, tin, pc, lifecycle>>

\* module m assigns to its handle: the handle is a constant, the assignment
\* throws
Reassign(m, value) ==
    /\ modules[m] # Unloaded
    /\ last' = Operation("reassign", Undefined, m, <<>>, Undefined, Undefined, value,
                         Outcome("threw", "TypeError: assignment to constant",
                                 Undefined))
    /\ emitted' = <<>>
    /\ UNCHANGED <<backend, env, props, cache, localStorage, calls, tin, pc, lifecycle>>

NextLoad ==
    \/ \E m \in Modules : Import(m)
    \/ SelectApi
    \/ \E m \in Modules, key \in GlobalKeys, value \in GlobalValues :
            AssignGlobal(m, key, value)
    \/ \E via \in Vias, key \in GlobalKeys : ReadGlobal(via, key)
    \/ \E m \in Modules, value \in GlobalValues : Reassign(m, value)

SpecLoad == InitLoad /\ [][NextLoad]_vars

-----------------------------------------------------------------------------
(* A rhetorical, its saves and the end of the process *)

InitRhetorical ==
    /\ backend = "node"
    /\ env = Empty
    /\ props = [s \in Scopes |-> Empty]
    /\ cache = Empty
    /\ localStorage = Empty
    /\ emitted = <<>>
    /\ last = Operation("none", Undefined, superglobal, <<>>, Undefined, Undefined,
                        Undefined, Outcome("returned", "none", Undefined))
    /\ calls = 0
    /\ tin = NoInput
    /\ pc = "idle"
    /\ disk \in RhetoricalDisks
    /\ listeners = NoListeners
    /\ attempts = <<>>
    /\ loaded = "loaded"
    /\ gen = 0
    /\ assigned = Empty
    /\ modules = NoModules
    /\ rhetorical = NoRhetorical
    /\ inflight = <<>>
    /\ stores = NoStores

\* new TemporaryRhetorical(name, options)
NewRhetorical(saveFrequency) ==
    /\ loaded = "loaded"
    /\ ~rhetorical.made
    /\ rhetorical' = TemporaryRhetorical(saveFrequency)
    /\ last' = Operation("new", Undefined, "rhetorical", <<>>, Undefined, Undefined,
                         saveFrequency, Outcome("returned", "none", Undefined))
    /\ emitted' = <<>>
    /\ UNCHANGED <<backend, env, props, cache, localStorage, calls, tin, pc,
                   disk, listeners, attempts, loaded, gen, assigned,
                   modules, inflight, stores>>

\* an assignment store[property] = value, in strict code or not
StoreSet(property, value, strict) ==
    /\ loaded = "loaded"
    /\ rhetorical.made
    /\ Len(inflight) < MaxInflight
    /\ LET r == SetTrap(rhetorical, property, value, inflight, strict)
       IN /\ rhetorical' = r.rhetorical
          /\ inflight' = r.inflight
          /\ emitted' = r.emitted
          /\ last' = Operation("set", Undefined, "rhetorical", property, Undefined,
                               Undefined, value,
                               Outcome(IF r.threw THEN "threw" ELSE "returned",
                                       IF rhetorical.revoked
                                       THEN "TypeError: proxy revoked"
                                       ELSE IF r.threw
                                       THEN "TypeError: trap returned falsish"
                                       ELSE "none",
                                       IF r.threw THEN Undefined ELSE value))
    /\ UNCHANGED <<backend, env, props, cache, localStorage, calls, tin, pc,
                   disk, listeners, attempts, loaded, gen, assigned, modules, stores>>

\* a read of store[property]
StoreGet(property) ==
    /\ loaded = "loaded"
    /\ rhetorical.made
    /\ LET r == GetTrap(rhetorical, property)
       IN /\ emitted' = r.emitted
          /\ last' = Operation("get", Undefined, "rhetorical", property, Undefined,
                               Undefined, Undefined,
                               Outcome(IF r.threw THEN "threw" ELSE "returned",
                                       IF r.threw THEN "TypeError: proxy revoked"
                                       ELSE "none",
                                       r.value))
    /\ UNCHANGED <<backend, env, props, cache, localStorage, calls, tin, pc,
                   disk, listeners, attempts, loaded, gen, assigned,
                   modules, rhetorical, inflight, stores>>

\* a call rhetorical.revoke()
Revoke ==
    /\ loaded = "loaded"
    /\ rhetorical.made
    /\ LET r == revoke(rhetorical)
       IN /\ rhetorical' = r.rhetorical
          /\ emitted' = r.emitted
          /\ last' = Operation("revoke", Undefined, "rhetorical", <<>>, Undefined,
                               Undefined, Undefined,
                               Outcome(IF r.threw THEN "threw" ELSE "returned",
                                       IF r.threw
                                       THEN "TypeError: this._revokable is undefined"
                                       ELSE "none",
                                       Undefined))
    /\ UNCHANGED <<backend, env, props, cache, localStorage, calls, tin, pc,
                   disk, listeners, attempts, loaded, gen, assigned,
                   modules, inflight, stores>>

\* a call rhetorical.save()
Save ==
    /\ loaded = "loaded"
    /\ rhetorical.made
    /\ Len(inflight) < MaxInflight
    /\ LET s == save(rhetorical, inflight)
       IN /\ inflight' = s.inflight
          /\ emitted' = s.emitted
    /\ last' = Operation("save", Undefined, "rhetorical", <<>>, Undefined, Undefined,
                         Undefined, Outcome("returned", "none", Undefined))
    /\ UNCHANGED <<backend, env, props, cache, localStorage, calls, tin, pc,
                   disk, listeners, attempts, loaded, gen, assigned,
                   modules, rhetorical, stores>>

\* the oldest write in flight completes and its callback runs
WriteFileDone ==
    /\ loaded = "loaded"
    /\ inflight # <<>>
    /\ LET w == writeFileSync(disk, Head(inflight).path, Head(inflight).data)
       IN /\ disk' = w.disk
          /\ rhetorical' = WriteCallback(rhetorical, w.threw)
          /\ last' = Operation("written", Undefined, "rhetorical", <<>>, Undefined,
                               Undefined, Undefined,
                               Outcome("returned", w.error, Undefined))
    /\ inflight' = Tail(inflight)
    /\ emitted' = <<>>
    /\ UNCHANGED <<backend, env, props, cache, localStorage, calls, tin, pc,
                   listeners, attempts, loaded, gen, assigned, modules, stores>>

\* Terminate("exit") is a call of process.exit() as well as the end of a
\* process with nothing left to do: process.exit() does not wait for the
\* writes in flight
NextRhetorical ==
    \/ \E saveFrequency \in SaveFrequencies : NewRhetorical(saveFrequency)
    \/ \E property \in StoreProperties, value \in RhetoricalValues,
          strict \in BOOLEAN :
            StoreSet(property, value, strict)
    \/ \E property \in StoreProperties : StoreGet(property)
    \/ Revoke
    \/ Save
    \/ WriteFileDone
    \/ \E event \in FlushEvents : Terminate(event)

SpecRhetorical == InitRhetorical /\ [][NextRhetorical]_vars

-----------------------------------------------------------------------------
(* The node process alone: its load, the values it caches, its end and its  *)
(* restarts                                                                 *)

InitFlush == InitCache /\ backend = "node"

NextFlush ==
    \/ ExecuteOnLoad
    \/ \E location \in Locations : TrySaveToDisk(location)
    \/ \E name \in CacheNames, scopeArg \in CacheScopeArgs, host \in Hosts(backend) :
            CreateCached(name, Null, scopeArg, host)
    \/ \E scope \in Scopes, name \in PropertyNames, value \in CachedValues :
            WriteCached(scope, name, value)
    \/ \E event \in FlushEvents : Terminate(event)
    \/ Restart

SpecFlush == InitFlush /\ [][NextFlush]_vars

-----------------------------------------------------------------------------
(* A process that receives signals: it ends by itself only when the         *)
(* application leaves the event loop nothing to do                          *)

InitSignal ==
    /\ backend = "node"
    /\ env = Empty
    /\ props = [s \in Scopes |-> Empty]
    /\ cache = Empty
    /\ localStorage = Empty
    /\ emitted = <<>>
    /\ last = Operation("none", Undefined, superglobal, <<>>, Undefined, Undefined,
                        Undefined, Outcome("returned", "none", Undefined))
    /\ calls = 0
    /\ tin \in [busy : Busy]
    /\ pc = "idle"
    /\ disk \in InitialDisks
    /\ listeners = NoListeners
    /\ attempts = <<>>
    /\ loaded = "no"
    /\ gen = 0
    /\ assigned = Empty
    /\ modules = NoModules
    /\ rhetorical = NoRhetorical
    /\ inflight = <<>>
    /\ stores = NoStores

\* nothing keeps the event loop alive: the process emits exit and ends
EventLoopEmpty ==
    /\ ~tin.busy
    /\ inflight = <<>>
    /\ Terminate("exit")

NextSignal ==
    \/ ExecuteOnLoad
    \/ \E location \in Locations : TrySaveToDisk(location)
    \/ \E name \in CacheNames, scopeArg \in CacheScopeArgs, host \in Hosts(backend) :
            CreateCached(name, Null, scopeArg, host)
    \/ \E scope \in Scopes, name \in PropertyNames, value \in CachedValues :
            WriteCached(scope, name, value)
    \/ \E event \in Signals : Terminate(event)
    \/ EventLoopEmpty

\* node ends a process whose event loop is empty; nothing else in the module
\* ends it
SpecSignal == InitSignal /\ [][NextSignal]_vars /\ WF_vars(EventLoopEmpty)

-----------------------------------------------------------------------------
(* The data stores: calls of the two functions on every host *)

InitDataStore ==
    /\ backend = "node"
    /\ env = Empty
    /\ props = [s \in Scopes |-> Empty]
    /\ last = Operation("none", Undefined, superglobal, <<>>, Undefined, Undefined,
                        Undefined, Outcome("returned", "none", Undefined))
    /\ cache = Empty
    /\ localStorage = Empty
    /\ emitted = <<>>
    /\ calls = 0
    /\ tin \in DataStoreHosts
    /\ pc = "idle"
    /\ disk = File("missing", MalformedText)
    /\ listeners = NoListeners
    /\ attempts = <<>>
    /\ loaded = "loaded"
    /\ gen = 0
    /\ assigned = Empty
    /\ modules = NoModules
    /\ rhetorical = NoRhetorical
    /\ inflight = <<>>
    /\ stores = NoStores

\* a call of getTemporaryDataStore(options)
GetTemporaryDataStore(options) ==
    /\ calls < MaxCalls
    /\ LET r == getTemporaryDataStore(options, stores)
       IN /\ stores' = r.stores
          /\ last' = Operation("getTemporaryDataStore", Undefined, superglobal, <<>>,
                               Undefined, Undefined, options,
                               Outcome(r.outcome, r.error, r.ret))
    /\ calls' = calls + 1
    /\ emitted' = <<>>
    /\ UNCHANGED <<backend, env, props, cache, localStorage, tin, pc,
                   disk, listeners, attempts, loaded, gen, assigned,
                   modules, rhetorical, inflight>>

\* a call of getPersistentDataStore(options)
GetPersistentDataStore(options) ==
    /\ calls < MaxCalls
    /\ LET r == getPersistentDataStore(options, tin, stores)
       IN /\ stores' = r.stores
          /\ last' = Operation("getPersistentDataStore", Undefined, superglobal, <<>>,
                               Undefined, Undefined, options,
                               Outcome(r.outcome, r.error, r.ret))
    /\ calls' = calls + 1
    /\ emitted' = <<>>
    /\ UNCHANGED <<backend, env, props, cache, localStorage, tin, pc,
                   disk, listeners, attempts, loaded, gen, assigned,
                   modules, rhetorical, inflight>>

NextDataStore ==
    \/ \E options \in DataStoreOptions : GetTemporaryDataStore(options)
    \/ \E options \in DataStoreOptions : GetPersistentDataStore(options)

SpecDataStore == InitDataStore /\ [][NextDataStore]_vars

-----------------------------------------------------------------------------
(* What the claims are stated in *)

Capitals == {"A", "B"}
SmallOrDigit == {"a", "b", "0", "1"}

\* a run of lowercase letters and digits, then segments of one capital
\* followed by at least one lowercase letter or digit
IsCamelCaseForm(s) ==
    /\ Len(s) >= 1
    /\ s[1] \in SmallOrDigit
    /\ \A i \in 1..Len(s) : s[i] \in SmallOrDigit \cup Capitals
    /\ \A i \in 1..Len(s) :
          s[i] \in Capitals => (i < Len(s) /\ s[i + 1] \in SmallOrDigit)

\* non-empty, of lowercase letters, digits and underscores only
HasNoCapital(s) ==
    /\ Len(s) >= 1
    /\ \A i \in 1..Len(s) : s[i] \in SmallOrDigit \cup {"_"}

CapitalOf(c) == IF c = "a" THEN "A" ELSE IF c = "b" THEN "B" ELSE c

UpperCased(s) == [i \in 1..Len(s) |-> CapitalOf(s[i])]

\* the number of capitals among the first i characters
CapitalsUpTo(s, i) == Cardinality({j \in 1..i : s[j] \in Capitals})

\* s with an underscore before each capital, upper-cased: character i of s
\* lands at position i + CapitalsUpTo(s, i), the other positions hold "_"
UnderscoredUpperCased(s) ==
    [k \in 1..(Len(s) + CapitalsUpTo(s, Len(s))) |->
        IF \E i \in 1..Len(s) : i + CapitalsUpTo(s, i) = k
        THEN CapitalOf(s[CHOOSE i \in 1..Len(s) : i + CapitalsUpTo(s, i) = k])
        ELSE "_"]

\* the real key of the property the last call installed
BoundKey(scope, name) == props[scope][name].realName

IsBound(scope, name) == name \in DOMAIN props[scope]

\* C1: a call without realName on a camelCase name returns the name with an
\* underscore before each capital, upper-cased, and binds the property to it
C1_CamelCaseKey ==
    (pc = "done" /\ IsCamelCaseForm(tin.name.s)) =>
        /\ last.outcome = "returned"
        /\ last.ret = Str(UnderscoredUpperCased(tin.name.s))
        /\ IsBound(superglobal, tin.name.s)
        /\ BoundKey(superglobal, tin.name.s) = UnderscoredUpperCased(tin.name.s)

\* testCamelCase -> TEST_CAMEL_CASE, in the alphabet of the model
C1_Witness ==
    /\ pc = "done"
    /\ tin.name.s = <<"a", "B", "1", "B", "a">>
    /\ last.ret = Str(<<"A", "_", "B", "1", "_", "B", "A">>)

\* C2: a call without realName on a non-empty name without capitals returns
\* the upper-cased name; for a word of lowercase letters and digits the
\* camelCase translation is that same key
C2_NoCapitalKey ==
    (pc = "done" /\ HasNoCapital(tin.name.s)) =>
        /\ last.outcome = "returned"
        /\ last.ret = Str(UpperCased(tin.name.s))
        /\ (\A i \in 1..Len(tin.name.s) : tin.name.s[i] \in SmallOrDigit) =>
              toUpperCase(ReplaceCapitals(tin.name.s)) = toUpperCase(tin.name.s)

\* the call on a name of one underscore threw and bound nothing
C2_Divergence ==
    /\ pc = "done"
    /\ tin.name.s = <<"_">>
    /\ last.outcome = "threw"
    /\ last.error = "TypeError: null match"
    /\ ~IsBound(superglobal, <<"_">>)


\* the step is a call of linkEnvironmentVariable that returned
LinkReturned == last'.op = "link" /\ last'.outcome = "returned"

\* the entries of e1 and e2 agree everywhere except possibly at key
SameExceptAt(e1, e2, key) ==
    \A k \in (DOMAIN e1 \cup DOMAIN e2) \ {key} : EnvGet(e1, k) = EnvGet(e2, k)

IsNonEmptyString(v) == v.t = "string" /\ Len(v.s) > 0

\* C3: a call with a non-empty realName on a scope that does not hold the
\* property yet returns; a call with a non-empty realName that returns,
\* returns realName itself, binds the property to the entry at realName and
\* leaves every other entry, the one at the translation of the name included,
\* as it was
C3_RealNameVerbatim ==
    [][(last'.op = "link" /\ IsNonEmptyString(last'.realName)) =>
          /\ ~IsBound(last'.scope, last'.name) => last'.outcome = "returned"
          /\ last'.outcome = "returned" =>
                /\ last'.ret = last'.realName
                /\ props'[last'.scope][last'.name].realName = last'.realName.s
                /\ Getter(env', last'.name, props'[last'.scope][last'.name].realName)
                      = EnvGet(env', last'.realName.s)
                /\ SameExceptAt(env, env', last'.realName.s)]_vars

\* a camelCase name bound to the entry "A": its translation "A_BA" is untouched
C3_Witness ==
    /\ last.op = "link"
    /\ last.outcome = "returned"
    /\ last.name = <<"a", "B", "a">>
    /\ last.realName = Str(<<"A">>)
    /\ last.ret = Str(<<"A">>)
    /\ <<"A">> \in DOMAIN env
    /\ <<"A", "_", "B", "A">> \notin DOMAIN env

\* C4: a read of a linked property returns what the entry at the real key of
\* the binding holds at the time of the read
C4_ReadsCurrentEntry ==
    last.op = "read" =>
        /\ IsBound(last.scope, last.name)
        /\ last.ret = EnvGet(env, BoundKey(last.scope, last.name))

\* the read returns a value only other code of the process has set
C4_Witness ==
    /\ last.op = "read"
    /\ last.name = <<"a", "B", "a">>
    /\ BoundKey(last.scope, last.name) = <<"A", "_", "B", "A">>
    /\ last.ret = Str(<<"x">>)

\* C5: after an assignment of v to a linked property the entry at its real key
\* and a read of the property are String(v), and every entry is a string
C5_WritesString ==
    /\ last.op = "write" =>
          /\ EnvGet(env, BoundKey(last.scope, last.name)) = Str(ToStringChars(last.value))
          /\ Getter(env, last.name, BoundKey(last.scope, last.name))
                = Str(ToStringChars(last.value))
    /\ \A k \in DOMAIN env : env[k].t = "string"

\* the number 0 was assigned and the entry holds the string "0"
C5_Witness ==
    /\ last.op = "write"
    /\ last.value = Num(0)
    /\ EnvGet(env, BoundKey(last.scope, last.name)) = Str(<<"0">>)

\* the initializer with its default: the empty string when omitted or null
DefaultedInitializer(v) == IF v \in {Undefined, Null} THEN Str(<<>>) ELSE v

\* C6: when a call returns and the entry at its real key was unset before it,
\* the entry and the property are String(initializer), "" by default
C6_InitializerApplied ==
    [][(LinkReturned /\ last'.ret.s \notin DOMAIN env) =>
          /\ EnvGet(env', last'.ret.s)
                = Str(ToStringChars(DefaultedInitializer(last'.initializer)))
          /\ Getter(env', last'.name, props'[last'.scope][last'.name].realName)
                = Str(ToStringChars(DefaultedInitializer(last'.initializer)))]_vars

\* the first call of a browser session, without initializer: the variable is ""
C6_Witness ==
    /\ backend = "browser"
    /\ calls = 1
    /\ last.op = "link"
    /\ last.outcome = "returned"
    /\ last.initializer = Undefined
    /\ EnvGet(env, last.ret.s) = Str(<<>>)

\* C7: a call made while the entry at its real key holds a value writes
\* nothing: the environment is unchanged and the property reads the old value
C7_InitializerNotApplied ==
    [][(LinkReturned /\ last'.ret.s \in DOMAIN env) =>
          /\ env' = env
          /\ Getter(env', last'.name, props'[last'.scope][last'.name].realName)
                = env[last'.ret.s]]_vars

\* the entry held the empty string and the initializer 0 did not replace it
C7_Witness ==
    /\ last.op = "link"
    /\ last.outcome = "returned"
    /\ last.initializer = Num(0)
    /\ EnvGet(env, last.ret.s) = Str(<<>>)


\* C8: a bind call with the empty name throws the error of the empty-name
\* check, installs no property and changes no environment or cache entry
C8_EmptyNameRejected ==
    [][(last'.op \in {"link", "create"} /\ last'.name = <<>>) =>
          /\ last'.outcome = "threw"
          /\ last'.error = "Error: name cannot be empty"
          /\ props' = props
          /\ env' = env
          /\ cache' = cache
          /\ localStorage' = localStorage]_vars

\* the call with the empty name returned and installed the property ""
C8_Divergence ==
    /\ last.op = "link"
    /\ last.name = <<>>
    /\ last.outcome = "returned"
    /\ IsBound(last.scope, <<>>)
    /\ last.ret.s \in DOMAIN env

\* C9: a call of linkEnvironmentVariable with the empty string as realName
\* throws the error of the empty-realName check, installs no property and
\* writes no environment entry
C9_EmptyRealNameRejected ==
    [][(last'.op = "link" /\ last'.realName = Str(<<>>)) =>
          /\ last'.outcome = "threw"
          /\ last'.error = "Error: realName cannot be empty"
          /\ props' = props
          /\ env' = env]_vars

\* the call with the empty realName returned "" and bound the property to it
C9_Divergence ==
    /\ last.op = "link"
    /\ last.name = <<"a">>
    /\ last.realName = Str(<<>>)
    /\ last.outcome = "returned"
    /\ last.ret = Str(<<>>)
    /\ BoundKey(last.scope, <<"a">>) = <<>>
    /\ <<>> \in DOMAIN env

\* C10: a call of linkEnvironmentVariable that repeats the call before it
\* (same name, realName, initializer and scope) returns the same real key and
\* leaves the environment and the properties as they were
C10_SecondBindIdempotent ==
    [][(/\ last.op = "link" /\ last.outcome = "returned"
        /\ last'.op = "link"
        /\ last'.name = last.name
        /\ last'.realName = last.realName
        /\ last'.initializer = last.initializer
        /\ last'.scope = last.scope) =>
          /\ last'.outcome = "returned"
          /\ last'.ret = last.ret
          /\ env' = env
          /\ props' = props]_vars

\* the second call on a bound name threw at Object.defineProperty
C10_Divergence ==
    /\ last.op = "link"
    /\ last.outcome = "threw"
    /\ last.error = "TypeError: cannot redefine property"
    /\ IsBound(last.scope, last.name)
    /\ props[last.scope][last.name].kind = "env"

\* C11: a call of linkEnvironmentVariable or createCachedVariable whose scope
\* argument is omitted or null, on a name with a letter or digit that the
\* global object does not hold yet, returns and installs the property on the
\* global object
C11_DefaultScopeIsGlobal ==
    [][(/\ last'.op \in {"link", "create"}
        /\ last'.scopeArg \in {Undefined, Null}
        /\ ~MatchIsNull(last'.name)
        /\ ~IsBound(superglobal, last'.name)) =>
          /\ last'.outcome = "returned"
          /\ last'.name \in DOMAIN props'[superglobal]]_vars

\* createCachedVariable without scope threw in the browser and the global
\* object does not hold the property
C11_Divergence ==
    /\ backend = "browser"
    /\ last.op = "create"
    /\ last.scopeArg = Undefined
    /\ last.initializer = Null
    /\ last.outcome = "threw"
    /\ last.error = "TypeError: defineProperty called on non-object"
    /\ ~IsBound(superglobal, last.name)

\* the cached value of name: cache[name] on node, the parsed item in the browser
StoreValue(c, ls, name) ==
    IF backend = "node" THEN CacheGet(c, name) ELSE JSONParse(GetItem(ls, name)).value

\* a cached value exists for name
StoreHas(c, ls, name) ==
    IF backend = "node" THEN name \in DOMAIN c /\ c[name] # Undefined
    ELSE name \in DOMAIN ls

\* C12: an assignment to a cached variable returns, and a read of the
\* variable that follows the assignment of v returns v
C12_ReadYourWrites ==
    [][(/\ last.op = "writec"
        /\ last'.op = "readc"
        /\ last'.scope = last.scope
        /\ last'.name = last.name) =>
          /\ last.outcome = "returned"
          /\ last'.outcome = "returned"
          /\ last'.ret = last.value]_vars

\* the store holds the assigned value and the read of the variable threw
C12_Divergence ==
    /\ last.op = "readc"
    /\ last.outcome = "threw"
    /\ last.error = "TypeError: this.dispatchEvent"
    /\ last.name \in DOMAIN assigned
    /\ StoreValue(cache, localStorage, last.name) = assigned[last.name].value

\* the step is a call of createCachedVariable with an initializer, on a scope
\* object that does not hold the property yet
CreateWithInitializer ==
    /\ last'.op = "create"
    /\ last'.initializer # Null
    /\ last'.scope \in Scopes
    /\ ~IsBound(last'.scope, last'.name)

\* C13: a call of createCachedVariable with an initializer, made while no
\* cached value exists, returns and leaves the initializer as the cached
\* value; made while a cached value exists, it leaves the stores as they were
C13_InitializerWhenUncached ==
    [][CreateWithInitializer =>
          IF StoreHas(cache, localStorage, last'.name)
          THEN cache' = cache /\ localStorage' = localStorage
          ELSE /\ last'.outcome = "returned"
               /\ StoreValue(cache', localStorage', last'.name) = last'.initializer]_vars

\* on node the cache file held "x" for the variable and the call replaced
\* the loaded value by the initializer false
C13_Divergence ==
    /\ backend = "node"
    /\ last.op = "create"
    /\ last.initializer = Bool(FALSE)
    /\ disk.text = ObjectText(<<"a">> :> <<Quote, "x", Quote>>)
    /\ assigned = Empty
    /\ CacheGet(cache, <<"a">>) = Bool(FALSE)

IsFalsy(v) == v \in {Bool(FALSE), Num(0), Str(<<>>)}

\* C14: a call of createCachedVariable with a falsy initializer (false, 0 or
\* ""), made while no cached value exists, returns, and a read of the property
\* in the state it leaves returns the initializer
C14_FalsyInitializer ==
    [][(/\ CreateWithInitializer
        /\ IsFalsy(last'.initializer)
        /\ ~StoreHas(cache, localStorage, last'.name)) =>
          /\ last'.outcome = "returned"
          /\ last'.name \in DOMAIN props'[last'.scope]
          /\ LET read == CachedGet(backend, props'[last'.scope][last'.name].host,
                                   last'.name, cache', localStorage')
             IN ~read.threw /\ read.value = last'.initializer]_vars

\* createCachedVariable("a", false) on an empty node cache returned without
\* a cached value, and the read that followed threw
C14_Divergence ==
    /\ backend = "node"
    /\ last.op = "readc"
    /\ last.outcome = "threw"
    /\ cache = Empty
    /\ assigned = Empty
    /\ props[last.scope][last.name].kind = "cache"

\* C15: a read of a cached variable in a process started after the one that
\* last assigned it returns the assigned value
C15_PersistsAcrossRestart ==
    (/\ last.op = "readc"
     /\ last.name \in DOMAIN assigned
     /\ assigned[last.name].gen < gen) =>
        /\ last.outcome = "returned"
        /\ last.ret = assigned[last.name].value

\* on node "x" was assigned, the process exited and flushed nothing, and the
\* next process holds no cached value for the variable
C15_Divergence ==
    /\ backend = "node"
    /\ gen = 1
    /\ loaded = "loaded"
    /\ <<"a">> \in DOMAIN assigned
    /\ assigned[<<"a">>] = [value |-> Str(<<"x">>), gen |-> 0]
    /\ disk.access = "missing"
    /\ last.op = "create"
    /\ last.outcome = "returned"
    /\ CacheGet(cache, <<"a">>) = Undefined

\* the step is an assignment to a cached variable
AssignsCached == last'.op = "writec"

\* C16: an assignment to a cached variable leaves the assigned value in the
\* store and dispatches one event: ldWrite, on the scope object of the
\* property, with the name and the assigned value
C16_OneWriteNotification ==
    [][AssignsCached =>
          /\ StoreValue(cache', localStorage', last'.name) = last'.value
          /\ emitted' = <<Event("ldWrite", last'.scope, last'.name, last'.value)>>]_vars

\* the property of the container object was assigned and the event went to
\* the global object
C16_Divergence ==
    /\ last.op = "writec"
    /\ last.scope = "container"
    /\ last.outcome = "returned"
    /\ emitted = <<Event("ldWrite", superglobal, last.name, last.value)>>

\* C17: a read of a cached variable returns the value in the store, leaves
\* the stores as they were and dispatches one event: ldRead, on the scope
\* object of the property, with the name and the value returned
C17_OneReadNotification ==
    [][last'.op = "readc" =>
          /\ last'.outcome = "returned"
          /\ last'.ret = StoreValue(cache, localStorage, last'.name)
          /\ cache' = cache
          /\ localStorage' = localStorage
          /\ emitted' = <<Event("ldRead", last'.scope, last'.name, last'.ret)>>]_vars

\* the read threw and dispatched nothing
C17_Divergence ==
    /\ last.op = "readc"
    /\ last.outcome = "threw"
    /\ emitted = <<>>
    /\ StoreHas(cache, localStorage, last.name)

\* the cache file cannot be used: it is missing, unreadable, unwritable or
\* not JSON
FileUnusable(d) == d.access # "ok" \/ d.text.kind = "malformed"

\* C18: the load of the node module on a cache file that cannot be used
\* completes and leaves an empty in-memory cache
C18_StartupNeverFails ==
    [][(last'.op = "load" /\ FileUnusable(disk)) =>
          /\ last'.outcome = "returned"
          /\ loaded' = "loaded"
          /\ cache' = Empty]_vars

\* the file was missing and the load of the module threw
C18_Divergence ==
    /\ last.op = "load"
    /\ disk.access = "missing"
    /\ last.outcome = "threw"
    /\ loaded = "failed"

\* the step is the exit of the process or one of its three signals
IsTermination == last'.op \in {"exit", "SIGTERM", "SIGINT", "SIGHUP"}

\* C19: on exit and on each signal, with a cache file that can be written,
\* one write puts the text of the whole in-memory cache into the file the
\* cache is loaded from, and the file then decodes to the in-memory cache
C19_FlushWritesWholeCache ==
    [][(IsTermination /\ disk.access # "unwritable") =>
          /\ attempts' = <<Attempt("cache_path", StringifyCache(cache), "none")>>
          /\ ExistsSync(disk')
          /\ ~ParseFile(disk'.text).threw
          /\ ParseFile(disk'.text).members = cache]_vars

\* the handler wrote to the directory of the file and the write failed
C19_Divergence ==
    /\ last.op = "exit"
    /\ Len(attempts) = 1
    /\ attempts[1].path = "appdata"
    /\ attempts[1].error = "EISDIR"

\* C20: on exit and on each signal exactly one write of the cache file is
\* attempted
C20_OneAttemptPerEvent ==
    [][IsTermination => Len(attempts') = 1]_vars

\* the session ran without a cache file and its exit attempted no write
C20_Divergence ==
    /\ last.op = "exit"
    /\ loaded = "exited"
    /\ disk.access = "missing"
    /\ cache # Empty
    /\ attempts = <<>>

\* a value JSON cannot encode
NotEncodable(v) == v \in {Func, Cyclic}

\* C21: an assignment of a function or of a cyclic structure to a cached
\* variable throws, and the cache and the storage keep what they held
C21_UnencodableRejected ==
    [][(last'.op = "writec" /\ NotEncodable(last'.value)) =>
          /\ last'.outcome = "threw"
          /\ cache' = cache
          /\ localStorage' = localStorage]_vars

\* browser: the assignment of a function returned and the storage holds the
\* text "undefined"
C21_Divergence ==
    /\ backend = "browser"
    /\ last.op = "writec"
    /\ last.value = Func
    /\ last.outcome = "returned"
    /\ GetItem(localStorage, last.name) = JSString(Undefined)

\* C22: index.js loads the browser backend exactly when the global object
\* refers to itself as window and the node backend otherwise, and the backend
\* loaded never changes afterwards
C22_BackendByWindow ==
    [][/\ last'.op = "select" =>
            /\ last'.outcome = "returned"
            /\ backend' = IF tin.window THEN "browser" ELSE "node"
       /\ backend # "none" => backend' = backend]_vars

\* the global object has window and index.js loaded the node backend
C22_Divergence ==
    /\ last.op = "select"
    /\ tin.window
    /\ backend = "node"

\* C23: every module holds the global object as its handle and keeps it; a
\* property assigned through the handle of one module is read through the
\* handle of every module, on the global object and as a bare identifier
C23_OneGlobalHandle ==
    [][/\ \A m \in Modules : modules'[m] # Unloaded => modules'[m] = Obj(superglobal)
       /\ \A m \in Modules : modules[m] # Unloaded => modules'[m] = modules[m]
       /\ last'.op = "reassign" => last'.outcome = "threw"
       /\ last'.op = "assign" =>
            /\ last'.outcome = "returned"
            /\ \A via \in Vias :
                  (via \in Modules => modules'[via] # Unloaded) =>
                     /\ ~GlobalRead(via, modules', props', last'.name).threw
                     /\ GlobalRead(via, modules', props', last'.name).value
                           = last'.value
       /\ (last'.op = "get" /\ last'.name \in DOMAIN props[superglobal]) =>
            /\ last'.outcome = "returned"
            /\ last'.ret = props[superglobal][last'.name].value]_vars

\* one module assigned through its handle while another module holds a
\* handle, and the global object has the property
C23_Witness ==
    /\ last.op = "assign"
    /\ last.scope = "set-superglobal"
    /\ modules["node"] = Obj(superglobal)
    /\ GetProperty(modules["node"], props, last.name).value = last.value

\* the real key of the linked property name of scope s, in the scopes p
KeyOf(p, s, name) == p[s][name].realName

\* C24: a write through a linked property is read, as its string form,
\* through every property bound to the same real key, in any scope; a read
\* through the other binding right after it returns it, and reads change
\* no entry
C24_SharedEntry ==
    [][/\ last'.op = "write" =>
            \A s \in Scopes : \A n \in DOMAIN props'[s] :
                KeyOf(props', s, n) = KeyOf(props', last'.scope, last'.name) =>
                    Getter(env', n, KeyOf(props', s, n)) = JSString(last'.value)
       /\ (/\ last'.op = "read"
           /\ last.op = "write"
           /\ KeyOf(props, last'.scope, last'.name) = KeyOf(props, last.scope, last.name)) =>
                last'.ret = JSString(last.value)
       /\ last'.op = "read" => env' = env]_vars

\* the number 0 was written through aBa while a_ba is bound to the same key,
\* and a_ba reads "0"
C24_Witness ==
    /\ last.op = "write"
    /\ last.name = <<"a", "B", "a">>
    /\ last.value = Num(0)
    /\ \E s \in Scopes :
          /\ IsBound(s, <<"a", "_", "b", "a">>)
          /\ BoundKey(s, <<"a", "_", "b", "a">>) = BoundKey(last.scope, last.name)
          /\ Getter(env, <<"a", "_", "b", "a">>, BoundKey(s, <<"a", "_", "b", "a">>))
                = Str(<<"0">>)

\* C25: a call that returns changes no entry but the one at its real key and
\* adds the one property name to its scope, every other property and scope
\* staying as it was; a call that throws changes nothing; a write through a
\* linked property changes no entry but the one at its real key
C25_FrameOfBinding ==
    [][/\ LinkReturned =>
            /\ SameExceptAt(env, env', last'.ret.s)
            /\ last'.name \notin DOMAIN props[last'.scope]
            /\ DOMAIN props'[last'.scope] = DOMAIN props[last'.scope] \cup {last'.name}
            /\ \A s \in Scopes : \A n \in DOMAIN props[s] : props'[s][n] = props[s][n]
            /\ \A s \in Scopes \ {last'.scope} : props'[s] = props[s]
       /\ (last'.op = "link" /\ last'.outcome = "threw") =>
            /\ env' = env
            /\ props' = props
       /\ last'.op = "write" =>
            /\ SameExceptAt(env, env', KeyOf(props, last'.scope, last'.name))
            /\ props' = props]_vars

\* a second property was bound in a scope while another key held an entry
C25_Witness ==
    /\ last.op = "link"
    /\ last.outcome = "returned"
    /\ Cardinality(DOMAIN props[last.scope]) = 2
    /\ \E k \in DOMAIN env : k # last.ret.s

\* C26: a call of createCachedVariable emits at most one event, a write
\* notification, and emits it when it writes to the cache or the storage;
\* without initializer (undefined or null) it writes nothing and emits nothing
C26_CreateNotifiesOnce ==
    [][last'.op = "create" =>
          /\ Len(emitted') <= 1
          /\ \A i \in 1..Len(emitted') : emitted'[i].type = "ldWrite"
          /\ last'.initializer \in {Undefined, Null} =>
                /\ cache' = cache
                /\ localStorage' = localStorage
                /\ emitted' = <<>>
          /\ (cache' # cache \/ localStorage' # localStorage) => Len(emitted') = 1]_vars

\* browser: the call without initializer (undefined) returned, stored the
\* text "undefined" and emitted a write notification
C26_Divergence ==
    /\ backend = "browser"
    /\ last.op = "create"
    /\ last.outcome = "returned"
    /\ Len(emitted) = 1
    /\ last.initializer = Undefined
    /\ GetItem(localStorage, last.name) = JSString(Undefined)

\* C27: in the browser a read of a cached variable whose storage item holds
\* JSON returns the value of the item as it is now, and emits one read
\* notification with that value
C27_ReadsStorage ==
    [][(/\ backend = "browser"
        /\ last'.op = "readc"
        /\ last'.name \in DOMAIN localStorage
        /\ ~JSONParse(GetItem(localStorage, last'.name)).threw) =>
          /\ last'.outcome = "returned"
          /\ last'.ret = JSONParse(GetItem(localStorage, last'.name)).value
          /\ Len(emitted') = 1
          /\ emitted'[1].type = "ldRead"
          /\ emitted'[1].name = last'.name
          /\ emitted'[1].value = last'.ret]_vars

\* the item was set to "z" directly and the read of the variable threw
C27_Divergence ==
    /\ backend = "browser"
    /\ last.op = "readc"
    /\ last.outcome = "threw"
    /\ GetItem(localStorage, last.name) = Str(<<Quote, "z", Quote>>)

\* the load whose access check of the cache file failed
AccessCheckFailed ==
    /\ last'.op = "load"
    /\ last'.error = "access" \/ (last'.outcome = "threw" /\ disk.access # "ok")

\* C28: a load whose access check of the cache file fails registers no
\* handler; while no handler is registered, no step after the load (exit and
\* the signals included) registers one, attempts a write or changes the file
C28_DegradedNeverWrites ==
    [][/\ AccessCheckFailed =>
            /\ listeners' = NoListeners
            /\ disk' = disk
            /\ attempts' = <<>>
       /\ (listeners = NoListeners /\ last'.op # "load") =>
            /\ listeners' = NoListeners
            /\ disk' = disk
            /\ attempts' = <<>>]_vars

\* the process of a session whose cache file cannot be written ended with a
\* value in its cache and attempted no write
C28_Witness ==
    /\ last.op \in FlushEvents
    /\ loaded = "exited"
    /\ disk.access = "unwritable"
    /\ listeners = NoListeners
    /\ cache # Empty
    /\ attempts = <<>>

\* C29: when the process has exited no write of the cache is in flight
C29_NoWriteInFlightAtExit == loaded = "exited" => inflight = <<>>

\* an assignment to the store started a write and the process exited before
\* the write completed
C29_Divergence ==
    /\ loaded = "exited"
    /\ last.op = "exit"
    /\ inflight # <<>>
    /\ rhetorical.context # Empty

\* a signal was delivered, its handlers ran and the flush succeeded
SignalFlushed ==
    /\ last.op \in Signals
    /\ listeners[last.op] # <<>>
    /\ last.outcome = "returned"

\* C30: after a signal whose flush handler ran, the process eventually ends
C30_SignalTerminates == [](SignalFlushed => <>(loaded = "exited"))

\* the flush ran on SIGTERM and the process of a busy application is still
\* running
C30_Divergence ==
    /\ last.op = "SIGTERM"
    /\ listeners["SIGTERM"] # <<>>
    /\ attempts # <<>>
    /\ tin.busy
    /\ loaded = "loaded"

\* the positions of the events of a type among the events emitted
EventsOf(ev, type) == {i \in 1..Len(ev) : ev[i].type = type}

\* C31: an assignment store[p] = v, with v falsy or not, completes and emits
\* one "writing-irony" event with (p, v); the read of store[p] that follows
\* it returns v and emits one "reading-irony" event with (p, v)
C31_StoreRoundTrip ==
    [][/\ (last'.op = "set" /\ last'.scope = "rhetorical") =>
            /\ last'.outcome = "returned"
            /\ Cardinality(EventsOf(emitted', "writing-irony")) = 1
            /\ \A i \in EventsOf(emitted', "writing-irony") :
                  /\ emitted'[i].name = last'.name
                  /\ emitted'[i].value = last'.value
       /\ (/\ last'.op = "get" /\ last'.scope = "rhetorical"
           /\ last.op = "set" /\ last.name = last'.name) =>
            /\ last'.outcome = "returned"
            /\ last'.ret = last.value
            /\ emitted' = <<Event("reading-irony", "rhetorical", last'.name, last.value)>>]_vars

\* strict code assigned 0: the context holds it and the assignment threw
C31_Divergence ==
    /\ last.op = "set"
    /\ last.scope = "rhetorical"
    /\ last.value = Num(0)
    /\ last.outcome = "threw"
    /\ CacheGet(rhetorical.context, last.name) = Num(0)

\* C32: when an assignment to the store of an "on-write" rhetorical starts a
\* file write, the data handed to the write is the serialized context as the
\* assignment leaves it
C32_SnapshotIsCurrent ==
    [][(/\ last'.op = "set"
        /\ last'.scope = "rhetorical"
        /\ rhetorical.onWriting # <<>>
        /\ Len(inflight') = Len(inflight) + 1) =>
          inflight'[Len(inflight')].data = StringifyCache(rhetorical'.context)]_vars

\* the first assignment put "x" into the context and handed the text of the
\* empty context to the write
C32_Divergence ==
    /\ last.op = "set"
    /\ last.scope = "rhetorical"
    /\ last.outcome = "returned"
    /\ rhetorical.onWriting # <<>>
    /\ rhetorical.context = (last.name :> Str(<<"x">>))
    /\ inflight # <<>>
    /\ inflight[Len(inflight)].data = StringifyCache(Empty)

\* the step before this one was the callback of a file write that failed
WriteJustFailed == last.op = "written" /\ last.error # "none"

\* C33: the callback of a failed file write leaves no "on-write" listener,
\* and the call of save or the assignment to the store that follows it starts
\* no file write
C33_SavingDisabledAfterFailure ==
    [][/\ (last'.op = "written" /\ last'.error # "none") =>
            rhetorical'.onWriting = <<>>
       /\ (WriteJustFailed /\ last'.op \in {"save", "set"}) =>
            inflight' = inflight]_vars

\* a file write failed, _iv is null, and a call of save started a write
C33_Divergence ==
    /\ last.op = "save"
    /\ rhetorical.iv = Null
    /\ disk.access = "unwritable"
    /\ inflight # <<>>

\* C34: revoke() returns and emits "revoking-irony" once; the read or the
\* assignment of the store that follows it fails, leaves the context as it
\* was and emits no "reading-irony" or "writing-irony" event
C34_RevokedStoreIsDead ==
    [][/\ last'.op = "revoke" =>
            /\ last'.outcome = "returned"
            /\ Cardinality(EventsOf(emitted', "revoking-irony")) = 1
       /\ (last.op = "revoke" /\ last'.op \in {"get", "set"}) =>
            /\ last'.outcome = "threw"
            /\ rhetorical'.context = rhetorical.context
            /\ EventsOf(emitted', "reading-irony") = {}
            /\ EventsOf(emitted', "writing-irony") = {}]_vars

\* revoke() emitted its event and threw, and the store is not revoked
C34_Divergence ==
    /\ last.op = "revoke"
    /\ last.outcome = "threw"
    /\ Cardinality(EventsOf(emitted, "revoking-irony")) = 1
    /\ ~rhetorical.revoked

\* the calls of the two data-store functions
DataStoreCalls == {"getTemporaryDataStore", "getPersistentDataStore"}

=============================================================================
